---- MODULE Spec2Model ----
(***************************************************************************)
(* Combat-resolution core of Ashbee Realms: the Encounter state machine,   *)
(* the damage pipeline and the chat command handlers that drive them.      *)
(* One player key is modelled (fights of different players never touch     *)
(* each other's objects).  A command handler is one atomic action; a       *)
(* Python exception raised inside a handler abandons the rest of the       *)
(* handler and keeps every mutation made before it (event_message catches  *)
(* it and answers "Command failed").                                       *)
(***************************************************************************)
EXTENDS Integers, Sequences, FiniteSets, TLC

VARIABLES
    p,        \* the Player object stored under the user's key
    e,        \* the Enemy object of the latest fight (p.combat["enemy"])
    encs,     \* every Encounter object created so far, by creation order
    present,  \* TRUE iff the key is in AdventureBot.state
    hardcore, \* HARDCORE_MODE, fixed when the process starts
    failed,   \* TRUE iff the last command ended in "Command failed"
    last,     \* name of the last command that ran
    gh,       \* history variables (counters of calls, last-call records)
    tasks,    \* where each concurrently dispatched command task stands
    loot,     \* the last call made on the DropSystem, with what it returned
    fx,       \* a player's gear and bonuses, a foe, and the last effect call
    disk      \* the save files, the saving task and the players in memory

vars == <<p, e, encs, present, hardcore, failed, last, gh, tasks, loot, fx, disk>>

----------------------------------------------------------------------------
(* Bounds of the model *)

MaxEnc == 1        \* Encounters created in one run
MaxStep == 1       \* exploration choices resolved in one run (p.step)
MaxArmor == 1      \* armor up to which a boss roars or guards
MaxEnds == 2       \* direct calls of end() on one Encounter
MaxTasks == 2      \* command tasks dispatched together
MaxLevel == 33     \* player levels handed to the DropSystem

(* Program constants *)

BASE_MAX_HP == 12
XP_TO_NEXT_1 == 10

\* The classes a player of the model picks from.  data.CLASSES also has the
\* rogue, whose dodge only makes fights longer.
Classes == {"warrior", "mage"}

HpBonus(c) == CASE c = "warrior" -> 4 [] c = "mage" -> 0 [] c = "rogue" -> 2 [] OTHER -> 0

Min(a, b) == IF a < b THEN a ELSE b
Max(a, b) == IF a > b THEN a ELSE b

(* Values the random draws of the code are taken from; each is a subset of  *)
(* the range the code draws from.                                           *)
MobGold == {2}             \* rng.randint(2, 7)
MobXp == {8}               \* rng.randint(4, 8)
BossGold == {8}            \* rng.randint(8, 16)
BossXp == {10}             \* rng.randint(10, 16)
HitBonus == {2}            \* rng.randint(0, 2)
SmashBonus == {2, 5}       \* rng.randint(2, 5)
LeftGold == {1}            \* rng.randint(1, 5)
FallbackGold == {1}        \* rng.randint(1, 3)
StashGold == {2}           \* rng.randint(2, 6)
Rolls == {100, 300, 450, 900}   \* rng.random(), in thousandths
Moves == {"smash", "roar", "guard"}  \* rng.choice(["smash", "roar", "guard"])

\* the choices of the events data.random_event() can return
Events == {{"rest", "investigate"}}

\* DropConfig.EXPLORATION_GOLD_VS_ITEM_RATIO, in thousandths
EXPLORATION_GOLD_VS_ITEM_RATIO == 600

(* The part of the item catalogue the model draws drops from. *)
NoItem == "None"
Rarities == {"common", "uncommon", "rare", "epic", "legendary", "mythic"}
Catalog(r) ==
    CASE r = "common" -> {"Potion", "Herb"}
      [] r = "uncommon" -> {"Iron Sword"}
      [] r = "rare" -> {"Enchanted Dagger"}
      [] r = "epic" -> {"Void Crystal"}
      [] r = "legendary" -> {"Godslayer Blade"}
      [] OTHER -> {"Void Reaper"}
RollOutcomes == {"none", "common", "rare"}

(* Rows of MOB_TABLE and BOSS_TABLE the model draws monsters from. *)
MobRows ==
    { [hp |-> 5, atk |-> 1, armor |-> 0, traits |-> {"evasive"},
       rarity |-> "common"] }                         \* Cave Bat
BossRows ==
    { [hp |-> 20, atk |-> 4, armor |-> 0, traits |-> {"necromancy"},
       rarity |-> "uncommon"] }                       \* Bone Shaman

StatusNames == {"bleed", "burn", "poison", "stunned", "frozen", "intimidated"}
NoStatuses == [s \in StatusNames |-> 0]

----------------------------------------------------------------------------
(* Objects *)

\* Player(name, location) with the dataclass defaults
NewPlayer ==
    [ level |-> 1, xp |-> 0, xp_to_next |-> XP_TO_NEXT_1,
      max_hp |-> BASE_MAX_HP, hp |-> BASE_MAX_HP, gold |-> 0,
      clazz |-> "none", inventory |-> <<"Potion">>,
      pending |-> {}, combat |-> FALSE, skill_cd |-> 0, step |-> 0,
      in_combat |-> FALSE, current_encounter |-> 0, encounter |-> 0,
      damage_bonus |-> 0, spell_power |-> 0, magic_damage_bonus |-> 0,
      life_steal |-> 0, armor_pierce |-> 0, crit_chance |-> 0,
      statuses |-> NoStatuses ]

\* Enemy(hp=hp, max_hp=hp, atk=atk, armor=armor, type=..., ...)
NewEnemy(hp, atk, armor, type, row) ==
    [ hp |-> hp, max_hp |-> hp, atk |-> atk, armor |-> armor,
      type |-> type, enraged |-> FALSE, special_cd |-> 0,
      traits |-> row.traits, statuses |-> NoStatuses, rarity |-> row.rarity,
      current_encounter |-> 0, encounter |-> 0, oid |-> 0 ]

\* the value of e while no Enemy object is referenced
NoEnemy ==
    [ hp |-> 0, max_hp |-> 0, atk |-> 0, armor |-> 0,
      type |-> "mob", enraged |-> FALSE, special_cd |-> 0,
      traits |-> {}, statuses |-> NoStatuses, rarity |-> "common",
      current_encounter |-> 0, encounter |-> 0, oid |-> 0 ]

NoCall == [called |-> FALSE, target |-> "none", amount |-> 0, ret |-> 0,
           returned |-> FALSE]

NoHistory ==
    [ made |-> 0,           \* Enemy objects built so far (e.oid numbers them)
      grants |-> <<>>,      \* per Encounter: runs of its victory handler
      ends |-> <<>>,        \* per Encounter: calls of end()
      legacy |-> 0,         \* runs of a victory handler with no Encounter
      dealtE |-> 0,         \* hp removed from e by engine.apply_damage, last command
      dealtP |-> 0,         \* hp removed from p by engine.apply_damage, last command
      ad |-> NoCall,        \* the last engine.apply_damage call
      rr |-> "none",        \* what the last reward_player_once call returned
      loadedDead |-> FALSE, \* the restored snapshot had an enemy with hp <= 0
      turns |-> 0           \* calls of enemy_turn made directly
    ]

\* the command tasks dispatched together
Tasks == 1..MaxTasks

\* a task is "new" until it first runs, "sent" while it is suspended in the
\* send that precedes after_round, and "done" afterwards
NoTasks == [t \in Tasks |-> "new"]

\* no call has been made on the DropSystem
NoDrop == [call |-> "none"]

\* no gear, foe or effect call is modelled (the other specifications)
NoFx == [call |-> "none"]

\* no save file is modelled (the other specifications)
NoDisk == [pc |-> "none"]

\* The state a handler works on; exc is TRUE once an exception is in flight,
\* pending once the handler has reached the send that precedes its
\* after_round call.
World(pp, ee, nn, hh) ==
    [p |-> pp, e |-> ee, encs |-> nn, gh |-> hh, present |-> TRUE,
     exc |-> FALSE, ret |-> "", pending |-> FALSE]

----------------------------------------------------------------------------
(* server/adapter.py, server/app.py *)

\* emit(player, "levelup", ...) -> send_private(player, ...): players_ws.get(user)
\* hashes its key, and Player is a dataclass with eq and without frozen, so
\* it has no __hash__: the lookup raises TypeError before the try block.
Emit(w) == [w EXCEPT !.exc = TRUE]

----------------------------------------------------------------------------
(* game/models.py : progression *)

LevelUp(w) ==
    LET lvl == w.p.level + 1
        hp_gain == 2 + (IF w.p.clazz = "warrior" THEN 1 ELSE 0)
        w1 == [w EXCEPT !.p.level = lvl,
                        !.p.xp = 0,
                        !.p.xp_to_next = 10 + (lvl - 1) * 6,
                        !.p.max_hp = @ + hp_gain,
                        !.p.hp = w.p.max_hp + hp_gain]
    IN Emit(w1)

\* while xp >= xp_to_next: xp -= xp_to_next; level_up()  -- level_up raises
\* in its last statement, so the loop body runs at most once.
GrantXp(w, amount) ==
    IF w.exc THEN w
    ELSE LET w1 == [w EXCEPT !.p.xp = @ + amount]
         IN IF w1.p.xp >= w1.p.xp_to_next
            THEN LevelUp([w1 EXCEPT !.p.xp = @ - w1.p.xp_to_next])
            ELSE w1

----------------------------------------------------------------------------
(* game/drops.py *)

\* The items generate_drop chooses from for a rolled rarity.  The first
\* `if` (COMMON) is followed by a separate if/elif/else chain whose else
\* branch resets `available` to [] for COMMON.
Available(rarity, exclude) ==
    CASE rarity = "uncommon" -> Catalog("uncommon") \ exclude
      [] rarity = "rare" -> Catalog("rare") \ exclude
      [] rarity = "epic" -> Catalog("epic") \ exclude
      [] rarity = "legendary" -> Catalog("legendary") \ exclude
      [] rarity = "mythic" -> Catalog("mythic") \ exclude
      [] OTHER -> {}

\* generate_drop: every value it can return for a roll (NoItem is None)
GenerateDrop(rarity, exclude) ==
    IF rarity = "none" THEN {NoItem}
    ELSE IF Available(rarity, exclude) = {} THEN {NoItem}
    ELSE Available(rarity, exclude)

\* get_mob_drop / get_boss_drop: what one call can return
DropResults == UNION {GenerateDrop(r, {}) : r \in RollOutcomes}

----------------------------------------------------------------------------
(* game/engine.py : victory handlers *)

\* id is the Encounter the payout is made for (0: none), for the history only
CountGrant(w, id) ==
    IF id = 0 THEN [w EXCEPT !.gh.legacy = @ + 1]
    ELSE [w EXCEPT !.gh.grants[id] = @ + 1]

HandleMobVictory(w, id, d) ==
    IF w.exc THEN w
    ELSE LET w1 == CountGrant([w EXCEPT !.p.gold = @ + d.gold], id)
             w2 == IF d.d1 # NoItem
                   THEN [w1 EXCEPT !.p.inventory = Append(@, d.d1)]
                   ELSE w1
         IN GrantXp(w2, d.xp)

HandleBossVictory(w, id, d) ==
    IF w.exc THEN w
    ELSE LET w1 == CountGrant([w EXCEPT !.p.gold = @ + d.gold], id)
             drops1 == IF d.d1 # NoItem THEN <<d.d1>> ELSE <<>>
             drops2 == IF d.m2 /\ d.d2 # NoItem /\ d.d2 # d.d1
                       THEN Append(drops1, d.d2) ELSE drops1
             drops3 == IF d.m3 /\ d.d3 # NoItem
                          /\ d.d3 \notin {drops2[i] : i \in 1..Len(drops2)}
                       THEN Append(drops2, d.d3) ELSE drops2
             w2 == [w1 EXCEPT !.p.inventory = @ \o drops3]
         IN IF Len(drops3) = 0
            THEN [w2 EXCEPT !.exc = TRUE]    \* drops[-1] on an empty list
            ELSE GrantXp(w2, d.xp)

----------------------------------------------------------------------------
(* game/engine.py : Encounter *)

\* Encounter.__init__
EncounterInit(w) ==
    LET id == Len(w.encs) + 1
    IN [w EXCEPT !.encs = Append(@, [resolved |-> FALSE, rewarded |-> FALSE]),
                 !.p.current_encounter = id, !.p.encounter = id,
                 !.e.current_encounter = id, !.e.encounter = id,
                 !.gh.grants = Append(@, 0), !.gh.ends = Append(@, 0)]

\* the victory handler for the enemy's type
HandleVictory(w, id, d) ==
    IF w.e.type = "boss" THEN HandleBossVictory(w, id, d)
    ELSE HandleMobVictory(w, id, d)

\* `return` of reward_player_once: the narration of the victory handler,
\* unless the handler raised
RewardReturn(w2) ==
    IF w2.exc THEN w2 ELSE [w2 EXCEPT !.ret = "spoils", !.gh.rr = "spoils"]

\* reward_player_once without its `if self.rewarded: return ""` guard; C3
\* does not hold of it
RewardPlayerOnceUnguarded(w, id, d) ==
    IF w.exc THEN w
    ELSE RewardReturn(HandleVictory(
             [w EXCEPT !.encs[id].rewarded = TRUE, !.gh.rr = "raised"], id, d))

\* Encounter.reward_player_once; w.ret is the returned narration
RewardPlayerOnce(w, id, d) ==
    IF w.exc THEN w
    ELSE IF w.encs[id].rewarded THEN [w EXCEPT !.ret = "", !.gh.rr = ""]
    ELSE RewardReturn(HandleVictory(
             [w EXCEPT !.encs[id].rewarded = TRUE, !.gh.rr = "raised"], id, d))

\* end() leaving the player's back-reference in place; C12 does not hold
\* of it
EndKeepingBackref(w, id) ==
    IF w.exc THEN w
    ELSE [w EXCEPT !.encs[id].resolved = TRUE,
                   !.p.in_combat = FALSE,
                   !.p.combat = FALSE,
                   !.e.current_encounter = IF w.e.encounter = id THEN 0 ELSE @,
                   !.gh.ends[id] = @ + 1]

\* end() that also lets the player catch breath (+1 hp up to max_hp); C13
\* does not hold of it
EndRestoring(w, id) ==
    IF w.exc THEN w
    ELSE [w EXCEPT !.encs[id].resolved = TRUE,
                   !.p.in_combat = FALSE,
                   !.p.combat = FALSE,
                   !.p.hp = IF @ < w.p.max_hp THEN @ + 1 ELSE @,
                   !.p.current_encounter = 0,
                   !.e.current_encounter = IF w.e.encounter = id THEN 0 ELSE @,
                   !.gh.ends[id] = @ + 1]

\* Encounter.end
End(w, id) ==
    IF w.exc THEN w
    ELSE [w EXCEPT !.encs[id].resolved = TRUE,
                   !.p.in_combat = FALSE,
                   !.p.combat = FALSE,
                   !.p.current_encounter = 0,
                   !.e.current_encounter = IF w.e.encounter = id THEN 0 ELSE @,
                   !.gh.ends[id] = @ + 1]

----------------------------------------------------------------------------
(* game/engine.py : damage pipeline *)

\* `a or b` on two references (0 is None)
Or(a, b) == IF a # 0 THEN a ELSE b

\* target.hp
TargetHp(w, target) == IF target = "enemy" THEN w.e.hp ELSE w.p.hp

\* _try_resolve_death paying the player out when the player falls; C10 does
\* not hold of it
TryResolveDeathPaying(w, target, d) ==
    IF w.exc THEN w
    ELSE LET enc == IF target = "enemy" THEN Or(w.e.current_encounter, w.e.encounter)
                    ELSE Or(w.p.current_encounter, w.p.encounter)
         IN IF TargetHp(w, target) <= 0 /\ enc # 0 /\ ~w.encs[enc].resolved
            THEN End(RewardPlayerOnce(w, enc, d), enc)
            ELSE w

\* _try_resolve_death without `not enc.resolved` on the enemy's death; C14
\* does not hold of it
TryResolveDeathUnchecked(w, target, d) ==
    IF w.exc THEN w
    ELSE IF target = "enemy"
    THEN LET enc == Or(w.e.current_encounter, w.e.encounter)
         IN IF w.e.hp <= 0 /\ enc # 0
            THEN End(RewardPlayerOnce(w, enc, d), enc)
            ELSE w
    ELSE LET enc == Or(w.p.current_encounter, w.p.encounter)
         IN IF w.p.hp <= 0 /\ enc # 0 /\ ~w.encs[enc].resolved
            THEN End(w, enc)
            ELSE w

\* _try_resolve_death
TryResolveDeath(w, target, d) ==
    IF w.exc THEN w
    ELSE IF target = "enemy"
    THEN LET enc == Or(w.e.current_encounter, w.e.encounter)
         IN IF w.e.hp <= 0 /\ enc # 0 /\ ~w.encs[enc].resolved
            THEN End(RewardPlayerOnce(w, enc, d), enc)
            ELSE w
    ELSE LET enc == Or(w.p.current_encounter, w.p.encounter)
         IN IF w.p.hp <= 0 /\ enc # 0 /\ ~w.encs[enc].resolved
            THEN End(w, enc)
            ELSE w

\* the subtraction without its floor; C7 does not hold of it
HpAfterUnfloored(before, amount) == before - amount

\* target.hp = max(0, before - amount)
HpAfter(before, amount) == Max(0, before - amount)

\* `return dealt` of apply_damage, with the call recorded in the history;
\* the call does not return when the death resolution raised
ApplyDamageReturn(w2, target, amount, dealt, ret0) ==
    [w2 EXCEPT !.ret = IF w2.exc THEN ret0 ELSE dealt,
               !.gh.dealtE = IF target = "enemy" THEN @ + dealt ELSE @,
               !.gh.dealtP = IF target = "enemy" THEN @ ELSE @ + dealt,
               !.gh.ad = [called |-> TRUE, target |-> target,
                          amount |-> amount,
                          ret |-> IF w2.exc THEN 0 ELSE dealt,
                          returned |-> ~w2.exc]]

\* apply_damage without its `if amount <= 0: return 0`; C8 does not hold
\* of it
ApplyDamageUnguarded(w, target, amount, d) ==
    IF w.exc THEN w
    ELSE LET before == TargetHp(w, target)
             after == HpAfter(before, amount)
             w1 == IF target = "enemy" THEN [w EXCEPT !.e.hp = after]
                                       ELSE [w EXCEPT !.p.hp = after]
         IN ApplyDamageReturn(TryResolveDeath(w1, target, d), target, amount,
                              before - after, w.ret)

\* engine.apply_damage; w.ret is the returned amount
ApplyDamage(w, target, amount, d) ==
    IF w.exc THEN w
    ELSE IF amount <= 0
    THEN [w EXCEPT !.ret = 0,
                   !.gh.ad = [called |-> TRUE, target |-> target, amount |-> amount,
                              ret |-> 0, returned |-> TRUE]]
    ELSE LET before == TargetHp(w, target)
             after == HpAfter(before, amount)
             w1 == IF target = "enemy" THEN [w EXCEPT !.e.hp = after]
                                       ELSE [w EXCEPT !.p.hp = after]
         IN ApplyDamageReturn(TryResolveDeath(w1, target, d), target, amount,
                              before - after, w.ret)

----------------------------------------------------------------------------
(* game/models.py : Enemy *)

\* self.statuses[name] -= 1 of Enemy.apply_statuses
ControlTick(w, name) ==
    IF w.exc \/ w.e.statuses[name] = 0 THEN w
    ELSE [w EXCEPT !.e.statuses[name] = @ - 1]

\* one damage-over-time entry of Enemy.apply_statuses
DotTick(w, name, damage, d) ==
    IF w.exc \/ w.e.statuses[name] = 0 THEN w
    ELSE ControlTick(ApplyDamage(w, "enemy", damage, d), name)

\* Enemy.apply_statuses
ApplyStatuses(w, d) ==
    IF w.exc THEN w
    ELSE LET w0 == IF w.e.type = "mob" /\ "regen" \in w.e.traits /\ w.e.hp < w.e.max_hp
                   THEN [w EXCEPT !.e.hp = Min(w.e.max_hp, w.e.hp + 1)]
                   ELSE w
             w1 == DotTick(w0, "bleed", 2, d)
             w2 == DotTick(w1, "burn", 3, d)
             w3 == DotTick(w2, "poison", 2, d)
             w4 == ControlTick(w3, "stunned")
             w5 == ControlTick(w4, "frozen")
         IN ControlTick(w5, "intimidated")

\* Enemy.has_intimidating_presence
HasIntimidatingPresence(en) == en.traits \cap {"intimidate", "fear", "terrifying"} # {}

\* Enemy.can_inflict_status
CanInflictStatus(en, status) ==
    en.traits \cap ( CASE status = "poison" -> {"poison", "poison_tail", "venomous"}
                       [] status = "burn" -> {"burn", "fire_breath", "flame_aura"}
                       [] status = "freeze" -> {"freeze", "ice_breath", "frost_aura"}
                       [] status = "bleed" -> {"bleed", "sharp_claws", "rend"}
                       [] OTHER -> {} ) # {}

\* Enemy.get_armor_bonus: shell, stone_skin and ice_armor add armor; no
\* sampled monster has one of them
GetEffectiveArmor(en) == en.armor

\* max(1, (max_hp - 5) // 3)
EnemyLevel(en) == Max(1, (en.max_hp - 5) \div 3)

\* the rarity_bonus table, times 10
RarityBonus10(r) ==
    CASE r = "rare" -> 12 [] r = "epic" -> 14 [] r = "legendary" -> 16
      [] r = "mythic" -> 18 [] OTHER -> 10

\* int(dmg * (1 - min((0.25 + enemy_level * 0.01) * rarity_bonus, 0.6)))
IntimidatedDamage(en, dmg) ==
    LET red == Min(((250 + EnemyLevel(en) * 10) * RarityBonus10(en.rarity)) \div 10, 600)
    IN (dmg * (1000 - red)) \div 1000

----------------------------------------------------------------------------
(* game/models.py : Player.use_skill; it writes enemy.hp itself *)

SpellBonus(pl) == pl.spell_power \div 10
GetTotalDamage(pl) == 1 + (pl.level \div 2) + pl.damage_bonus
GetSpellPower(pl) == pl.spell_power + (IF pl.clazz = "mage" THEN pl.level ELSE 0)
GetMagicDamageBonus(pl) == pl.magic_damage_bonus + GetSpellPower(pl)

UseSkill(w, d) ==
    IF w.exc THEN w
    ELSE CASE w.p.clazz = "warrior" ->
              IF d.shit
              THEN LET dmg == d.sroll + w.p.level + SpellBonus(w.p)
                       eff == Max(0, w.e.armor - w.p.armor_pierce)
                       final == Max(1, dmg - eff)
                       heal == IF w.p.life_steal > 0
                               THEN Min(w.p.life_steal, w.p.max_hp - w.p.hp) ELSE 0
                   IN [w EXCEPT !.e.hp = Max(0, @ - final),
                                !.p.hp = @ + heal,
                                !.p.skill_cd = 3]
              ELSE [w EXCEPT !.p.skill_cd = 3]
         [] w.p.clazz = "mage" ->
              LET raw == 2 + w.p.level + GetMagicDamageBonus(w.p)
                  total == GetEffectiveArmor(w.e)
                  ignored == (total + 1) \div 2
                  eff == Max(0, total - ignored)
                  dmg == Max(1, raw - eff)
                  dur == 2 + (GetSpellPower(w.p) \div 3)
              IN [w EXCEPT !.e.hp = Max(0, @ - dmg),
                           !.e.statuses["burn"] = IF d.burn THEN @ + dur ELSE @,
                           !.p.skill_cd = 2]
         [] w.p.clazz = "rogue" ->
              LET base == 1 + w.p.level + SpellBonus(w.p)
                  dagger == \E i \in 1..Len(w.p.inventory) :
                                w.p.inventory[i] = "Enchanted Dagger"
                  dmg == base + d.sroll + w.p.damage_bonus
              IN [w EXCEPT !.e.hp = Max(0, @ - dmg),
                           !.e.statuses["bleed"] = IF d.shit /\ dagger THEN @ + 3 ELSE @,
                           !.p.skill_cd = 3]
         [] OTHER -> w     \* "No class selected"

\* the random draws of use_skill, by class: whether the strike lands (or
\* crits) and the value of its randint
SkillDraws(clazz) ==
    CASE clazz = "warrior" ->
             { [shit |-> TRUE, sroll |-> 3, burn |-> FALSE],
               [shit |-> FALSE, sroll |-> 3, burn |-> FALSE] }
      [] clazz = "mage" ->
             { [shit |-> TRUE, sroll |-> 0, burn |-> b] : b \in BOOLEAN }
      [] clazz = "rogue" ->
             { [shit |-> TRUE, sroll |-> 3, burn |-> FALSE],
               [shit |-> FALSE, sroll |-> 0, burn |-> FALSE] }
      [] OTHER -> { [shit |-> FALSE, sroll |-> 0, burn |-> FALSE] }

----------------------------------------------------------------------------
(* game/engine.py : GameEngine *)

\* the rarity_multiplier tables of make_mob and make_boss, times 100
MobRarityMult(r) ==
    CASE r = "common" -> 100 [] r = "uncommon" -> 115 [] r = "rare" -> 135
      [] r = "epic" -> 160 [] r = "legendary" -> 190 [] r = "mythic" -> 240
      [] OTHER -> 100
BossRarityMult(r) ==
    CASE r = "uncommon" -> 85 [] r = "rare" -> 100 [] r = "epic" -> 135
      [] r = "legendary" -> 175 [] r = "mythic" -> 230 [] OTHER -> 100

\* make_mob for the table row the weighted choice returned
MakeMob(pl, row) ==
    LET lvl == Max(1, pl.level)
        m == MobRarityMult(row.rarity)
    IN NewEnemy(((row.hp + (lvl * 15) \div 10) * m) \div 100,
                ((row.atk + (lvl * 8) \div 10) * m) \div 100,
                ((row.armor + (lvl * 3) \div 10) * m) \div 100,
                "mob", row)

\* make_boss for the table row the weighted choice returned
MakeBoss(pl, row) ==
    LET lvl == Max(1, pl.level)
        m == BossRarityMult(row.rarity)
    IN NewEnemy(((row.hp + lvl * 4) * m) \div 100,
                ((row.atk + (lvl * 15) \div 10) * m) \div 100,
                ((row.armor + (lvl * 5) \div 10) * m) \div 100,
                "boss", row)

\* p.combat = {"enemy": enemy}; p.skill_cd = 0; Encounter(self, p, enemy)
StartCombat(w, enemy) ==
    IF w.exc THEN w
    ELSE EncounterInit([w EXCEPT !.e = [enemy EXCEPT !.oid = w.gh.made + 1],
                                 !.gh.made = @ + 1,
                                 !.p.combat = TRUE,
                                 !.p.skill_cd = 0])

StartMobCombat(w, row) == StartCombat(w, MakeMob(w.p, row))
StartBossCombat(w, row) == StartCombat(w, MakeBoss(w.p, row))

\* end_combat(victory=True) after its Encounter branch: w1 is returned when
\* the Encounter paid just now, else the legacy handlers run
LegacyVictory(w1, enc, already, enemy, d) ==
    IF w1.exc THEN w1
    ELSE IF enc # 0 /\ ~already /\ w1.ret # "" THEN w1
    ELSE IF ~enemy THEN w1           \* "The foe has fallen."
    ELSE HandleVictory(w1, enc, d)   \* fallback for no Encounter

\* end_combat that pays the Encounter's reward on a retreat as well; C38
\* does not hold of it
EndCombatPayingRetreat(w, victory, d) ==
    IF w.exc THEN w
    ELSE LET enemy == w.p.combat
             enc == w.p.current_encounter
         IN IF ~victory /\ ~(enc # 0 /\ ~w.encs[enc].resolved)
            THEN [w EXCEPT !.p.combat = FALSE, !.p.in_combat = FALSE]
            ELSE LegacyVictory(IF enc # 0
                               THEN End(RewardPlayerOnce(w, enc, d), enc)
                               ELSE w,
                               enc, enc # 0 /\ w.encs[enc].rewarded, enemy, d)

\* end_combat
EndCombat(w, victory, d) ==
    IF w.exc THEN w
    ELSE LET enemy == w.p.combat              \* p.combat["enemy"] if p.combat
             enc == w.p.current_encounter
         IN IF ~victory
            THEN IF enc # 0 /\ ~w.encs[enc].resolved
                 THEN End(w, enc)
                 ELSE [w EXCEPT !.p.combat = FALSE, !.p.in_combat = FALSE]
            ELSE LegacyVictory(IF enc # 0
                               THEN End(RewardPlayerOnce(w, enc, d), enc)
                               ELSE w,
                               enc, enc # 0 /\ w.encs[enc].rewarded, enemy, d)

\* after_round
AfterRound(w) ==
    IF w.exc THEN w
    ELSE IF w.p.skill_cd > 0 THEN [w EXCEPT !.p.skill_cd = @ - 1] ELSE w

\* e.special_cd = 0 after boss_special has returned
ResetSpecial(w3) == IF w3.exc THEN w3 ELSE [w3 EXCEPT !.e.special_cd = 0]

\* boss_special
BossSpecial(w, d) ==
    IF w.exc THEN w
    ELSE CASE d.move = "smash" ->
                ApplyDamage(w, "player", w.e.atk + d.smash, d)
           [] d.move = "roar" ->
                [w EXCEPT !.e.armor = @ + 1]
           [] OTHER ->
                LET heal == IF w.e.hp < w.e.max_hp
                            THEN Min(5, w.e.max_hp - w.e.hp) ELSE 0
                IN [w EXCEPT !.e.hp = @ + heal, !.e.armor = @ + 1]

\* enemy_turn with a special that comes every second turn; C35 does not
\* hold of it
EnemySpecialEverySecond(w2, d) ==
    IF w2.exc \/ w2.e.type # "boss" THEN w2
    ELSE IF w2.e.special_cd + 1 >= 2
    THEN ResetSpecial(BossSpecial([w2 EXCEPT !.e.special_cd = @ + 1], d))
    ELSE [w2 EXCEPT !.e.special_cd = @ + 1]

\* enemy_turn, the boss's special once its attack is made
EnemySpecial(w2, d) ==
    IF w2.exc \/ w2.e.type # "boss" THEN w2
    ELSE IF w2.e.special_cd + 1 >= 3
    THEN ResetSpecial(BossSpecial([w2 EXCEPT !.e.special_cd = @ + 1], d))
    ELSE [w2 EXCEPT !.e.special_cd = @ + 1]

\* int((2 + enemy_level * k) * rarity_bonus), k being 0.2 for poison, 0.15
\* for burn and 0.1 for bleed
InflictDuration(en, status) ==
    ((200 + EnemyLevel(en) * (CASE status = "poison" -> 20
                                [] status = "burn" -> 15
                                [] OTHER -> 10))
     * RarityBonus10(en.rarity)) \div 1000

\* enemy_turn, the statuses the hit leaves on the player: each one the enemy
\* can inflict and whose roll succeeded gains its duration
Inflict(w, d) ==
    IF w.exc THEN w
    ELSE [w EXCEPT !.p.statuses =
            [s \in DOMAIN @ |->
               IF /\ CanInflictStatus(w.e, s)
                  /\ \/ s = "poison" /\ d.poisons
                     \/ s = "burn" /\ d.burns
                     \/ s = "bleed" /\ d.bleeds
               THEN @[s] + InflictDuration(w.e, s) ELSE @[s]]]

\* enemy_turn, the hit and the statuses it may leave on the player
EnemyHit(w, amount, d) ==
    IF d.poisons \/ d.burns \/ d.bleeds
    THEN Inflict(ApplyDamage(w, "player", amount, d), d)
    ELSE ApplyDamage(w, "player", amount, d)

\* enemy_turn going on to the attack whether or not the ticks felled the enemy
EnemyAttackOfTheFallen(w1, d) ==
    IF w1.exc THEN w1
    ELSE LET atk == IF w1.e.type = "boss" /\ w1.e.enraged
                    THEN (w1.e.atk * 3) \div 2 ELSE w1.e.atk
             dmg == atk + d.hit
         IN EnemySpecial(
                IF w1.p.clazz = "rogue" /\ d.dodge THEN w1
                ELSE IF HasIntimidatingPresence(w1.e) /\ d.intim
                THEN EnemyHit(w1, IntimidatedDamage(w1.e, dmg), d)
                ELSE EnemyHit(w1, dmg, d), d)

\* enemy_turn, the attack once the statuses have ticked
EnemyAttack(w1, d) ==
    IF w1.exc \/ w1.e.hp <= 0 THEN w1
    ELSE LET atk == IF w1.e.type = "boss" /\ w1.e.enraged
                    THEN (w1.e.atk * 3) \div 2 ELSE w1.e.atk
             dmg == atk + d.hit
         IN EnemySpecial(
                IF w1.p.clazz = "rogue" /\ d.dodge THEN w1
                ELSE IF HasIntimidatingPresence(w1.e) /\ d.intim
                THEN EnemyHit(w1, IntimidatedDamage(w1.e, dmg), d)
                ELSE EnemyHit(w1, dmg, d), d)

\* enemy_turn
EnemyTurn(w, d) ==
    IF w.exc THEN w
    ELSE EnemyAttack(ApplyStatuses(
             IF w.e.type = "boss" /\ ~w.e.enraged
                /\ w.e.hp <= (w.e.max_hp * 3) \div 10
             THEN [w EXCEPT !.e.enraged = TRUE] ELSE w, d), d)

\* _encounter_autoresolve_victory
EncounterAutoresolveVictory(w, d) ==
    IF w.exc \/ ~w.p.combat \/ w.e.hp > 0 THEN w
    ELSE LET enc == Or(w.p.current_encounter, w.p.encounter)
         IN IF enc # 0 /\ ~w.encs[enc].resolved
            THEN End(RewardPlayerOnce(w, enc, d), enc)
            ELSE [w EXCEPT !.p.in_combat = FALSE, !.p.combat = FALSE]

\* autoresolve_dead_foes_on_load, for the one player modelled
AutoresolveDeadFoesOnLoad(w, d) ==
    IF w.p.combat /\ w.e.hp <= 0 THEN EncounterAutoresolveVictory(w, d) ELSE w

\* p.step += 1; p.pending = None at the end of handle_choice
StepDone(w1) ==
    IF w1.exc THEN w1 ELSE [w1 EXCEPT !.p.step = @ + 1, !.p.pending = {}]

\* handle_choice for an option of the pending event.  The events sampled
\* offer left/right and rest/investigate.
HandleChoice(w, option, d) ==
    IF w.exc \/ option \notin w.p.pending THEN w
    ELSE IF d.roll < 180
    THEN StartMobCombat([w EXCEPT !.p.pending = {}], d.row)
    ELSE StepDone(
               CASE option \in {"left", "right"} ->
                      LET w0 == IF d.roll < EXPLORATION_GOLD_VS_ITEM_RATIO
                                THEN [w EXCEPT !.p.gold = @ + d.egold]
                                ELSE IF d.item # NoItem
                                THEN [w EXCEPT !.p.inventory = Append(@, d.item)]
                                ELSE [w EXCEPT !.p.gold = @ + d.fgold]
                      IN GrantXp(w0, 2)
                 [] option = "investigate" ->
                      LET w0 == IF d.roll < 500
                                THEN [w EXCEPT !.p.hp = Max(1, @ - 2)]
                                ELSE IF d.roll2 < 300 /\ d.item # NoItem
                                THEN [w EXCEPT !.p.inventory = Append(@, d.item)]
                                ELSE [w EXCEPT !.p.gold = @ + d.sgold]
                      IN GrantXp(w0, 3)
                 [] OTHER ->                   \* "rest"
                      IF d.roll < 400
                      THEN [w EXCEPT !.p.hp = @ + Min(1, w.p.max_hp - w.p.hp)]
                      ELSE w)

----------------------------------------------------------------------------
(* TwitchGame.py : AdventureBot *)

\* the module-level apply_damage of TwitchGame.py: `from engine import
\* apply_damage` finds no module named engine, so the except branch defines it
FallbackApplyDamage(w, dmg) ==
    IF w.exc THEN w
    ELSE [w EXCEPT !.e.hp = Max(0, Max(0, w.e.hp) - Max(0, dmg))]

\* _handle_player_defeat
HandlePlayerDefeat(w, hc) ==
    IF w.exc THEN w
    ELSE IF hc THEN [w EXCEPT !.present = FALSE]
    ELSE LET gold_loss == IF w.p.gold > 0 THEN (w.p.gold + 4) \div 5 ELSE 0
         IN [w EXCEPT !.p.gold = Max(0, @ - gold_loss),
                      !.p.hp = 1,
                      !.p.combat = FALSE]

\* `if player.hp <= 0: await self._handle_player_defeat(...)` after the
\* enemy's turn
PlayerDefeat(w1, hc) ==
    IF ~w1.exc /\ w1.p.hp <= 0 THEN HandlePlayerDefeat(w1, hc) ELSE w1

\* `await self.send_and_log(ctx, response)` with `self.engine.after_round(
\* player)` still ahead: the handler is suspended here
Suspended(w) == IF w.exc THEN w ELSE [w EXCEPT !.pending = TRUE]

\* what a handler suspended there does when it runs again: after_round, then
\* persist, which changes nothing of the game state
Resumed(w) ==
    IF w.pending THEN AfterRound([w EXCEPT !.pending = FALSE]) ELSE w

\* _handle_combat_resolution up to its first await
HandleCombatResolution(w, hc, d) ==
    IF w.exc THEN w
    ELSE IF w.e.hp <= 0 THEN EndCombat(w, TRUE, d)
    ELSE Suspended(PlayerDefeat(EnemyTurn(w, d), hc))

\* the fight command after its decorators, up to its first await
FightRound(w, hc, d) ==
    LET enc == Or(w.p.current_encounter, w.p.encounter)
    IN IF w.e.hp <= 0 THEN EndCombat(w, TRUE, d)
       ELSE IF enc # 0 /\ w.encs[enc].resolved THEN w
       ELSE HandleCombatResolution(FallbackApplyDamage(w, Max(1, w.p.level)), hc, d)

\* the skill command after its decorators and its cooldown check, up to its
\* first await
SkillRound(w, hc, d) ==
    LET enc == Or(w.p.current_encounter, w.p.encounter)
    IN IF w.e.hp <= 0 \/ (enc # 0 /\ w.encs[enc].resolved) THEN w
       ELSE HandleCombatResolution(UseSkill(w, d), hc, d)

\* the run command after its decorators, up to its first await
RunRound(w, hc, d) ==
    Suspended(IF d.escape THEN EndCombat(w, FALSE, d)
              ELSE PlayerDefeat(EnemyTurn(w, d), hc))

\* the fight command after its decorators, run to its end
FightBody(w, hc, d) == Resumed(FightRound(w, hc, d))

\* the skill command after its decorators and its cooldown check, run to
\* its end
SkillBody(w, hc, d) == Resumed(SkillRound(w, hc, d))

\* the run command after its decorators, run to its end
RunBody(w, hc, d) == Resumed(RunRound(w, hc, d))

----------------------------------------------------------------------------
(* Random draws of one command *)

\* the draws of a victory handler
VictoryDraws(type) ==
    IF type = "boss"
    THEN { r \in [gold : BossGold, xp : BossXp, d1 : DropResults,
                  m2 : BOOLEAN, d2 : DropResults,
                  m3 : BOOLEAN, d3 : DropResults] :
             /\ ~r.m2 => r.d2 = NoItem
             /\ ~r.m3 => r.d3 = NoItem }
    ELSE [gold : MobGold, xp : MobXp, d1 : DropResults,
          m2 : {FALSE}, d2 : {NoItem}, m3 : {FALSE}, d3 : {NoItem}]

\* a victory draw for commands in which no victory handler runs
NoVictory ==
    [gold |-> 0, xp |-> 0, d1 |-> NoItem, m2 |-> FALSE, d2 |-> NoItem,
     m3 |-> FALSE, d3 |-> NoItem]

\* the draws of enemy_turn and boss_special; a boss whose armor has reached
\* MaxArmor only smashes
TurnDraws(pl, en) ==
    LET special == en.type = "boss" /\ en.special_cd + 1 >= 3
    IN [hit : HitBonus,
        dodge : IF pl.clazz = "rogue" THEN BOOLEAN ELSE {FALSE},
        intim : IF HasIntimidatingPresence(en) THEN BOOLEAN ELSE {FALSE},
        move : IF special /\ en.armor < MaxArmor THEN Moves ELSE {"smash"},
        smash : IF special THEN SmashBonus ELSE {2},
        poisons : IF CanInflictStatus(en, "poison") THEN BOOLEAN ELSE {FALSE},
        burns : IF CanInflictStatus(en, "burn") THEN BOOLEAN ELSE {FALSE},
        bleeds : IF CanInflictStatus(en, "bleed") THEN BOOLEAN ELSE {FALSE}]

\* the draw of the run command
RunDraws == [escape : BOOLEAN]

\* the draws of a turn in which the enemy does not act
NoTurn ==
    [hit |-> 0, dodge |-> FALSE, intim |-> FALSE, move |-> "smash", smash |-> 0,
     poisons |-> FALSE, burns |-> FALSE, bleeds |-> FALSE]

\* the draws of handle_choice for an option; canFight allows the draw that
\* starts a fight.  The second rng.random() and get_exploration_drop are
\* drawn only in the branches that reach them.
ChoiceDraws(canFight, option) ==
    { r \in [roll : IF canFight THEN Rolls ELSE Rolls \ {100},
             roll2 : {100, 900}, egold : LeftGold, fgold : FallbackGold,
             sgold : StashGold, item : DropResults, row : MobRows] :
        LET second == option = "investigate" /\ r.roll >= 500
            drop == \/ second /\ r.roll2 < 300
                    \/ /\ option \in {"left", "right"}
                       /\ r.roll >= EXPLORATION_GOLD_VS_ITEM_RATIO
        IN /\ ~second => r.roll2 = 900
           /\ ~drop => r.item = NoItem }

\* TRUE iff a victory handler ran between w0 and w1
Rewarding(w0, w1) ==
    w1.gh.grants # w0.gh.grants \/ w1.gh.legacy # w0.gh.legacy

----------------------------------------------------------------------------
(* Command handlers as actions *)

\* the state a command starts from; the per-command history is reset
Begin ==
    World(p, e, encs,
          [gh EXCEPT !.dealtE = 0, !.dealtP = 0, !.ad = NoCall, !.rr = "none"])

\* An Enemy p.combat no longer refers to: nothing reads it again, so only
\* its identity and whether it has fallen are kept.
Stale(en) ==
    [NoEnemy EXCEPT !.oid = en.oid, !.max_hp = en.max_hp,
                    !.hp = IF en.hp <= 0 THEN 0 ELSE en.max_hp,
                    !.encounter = en.encounter]

\* the state a handler leaves behind when it yields or returns
Settle(w, name) ==
    /\ p' = IF w.present THEN w.p ELSE NewPlayer
    /\ e' = IF ~w.present THEN NoEnemy
            ELSE IF w.p.combat THEN w.e ELSE Stale(w.e)
    /\ encs' = w.encs
    /\ gh' = [w.gh EXCEPT !.ad = NoCall, !.rr = "none"]
    /\ present' = w.present
    /\ failed' = w.exc
    /\ last' = name
    /\ UNCHANGED <<hardcore, loot, fx, disk>>

\* the state a command leaves behind
Commit(w, name) == Settle(w, name) /\ UNCHANGED tasks

\* start
Start ==
    /\ ~present
    /\ Commit([Begin EXCEPT !.p = NewPlayer], "start")

\* class <chosen>
SetClass ==
    /\ present /\ p.clazz = "none"
    /\ \E chosen \in Classes :
         Commit([Begin EXCEPT !.p.clazz = chosen,
                              !.p.max_hp = @ + HpBonus(chosen),
                              !.p.hp = p.max_hp + HpBonus(chosen)], "class")

\* hunt
Hunt ==
    /\ present /\ ~p.combat
    /\ Len(encs) < MaxEnc
    /\ \E row \in MobRows : Commit(StartMobCombat(Begin, row), "hunt")

\* explore, boss branch
ExploreBoss ==
    /\ present /\ p.clazz # "none" /\ ~p.combat /\ p.pending = {}
    /\ Len(encs) < MaxEnc
    /\ \E row \in BossRows : Commit(StartBossCombat(Begin, row), "explore")

\* explore, event branch
ExploreEvent ==
    /\ present /\ p.clazz # "none" /\ ~p.combat /\ p.pending = {}
    /\ p.step < MaxStep
    /\ \E ev \in Events : Commit([Begin EXCEPT !.p.pending = ev], "explore")

\* choose <option>; canFight allows the draw that starts a fight
ChooseWhile(canFight) ==
    /\ present /\ p.pending # {}
    /\ \E option \in p.pending :
         \E d \in ChoiceDraws(canFight, option) :
           Commit(HandleChoice(Begin, option, d), "choose")

\* choose <option>, the Encounters of a run being MaxEnc at most
Choose == ChooseWhile(Len(encs) < MaxEnc)

\* choose <option>, whatever Encounters there are
ChooseFreely == ChooseWhile(TRUE)

\* heal adding the potion's 6 points without the min(); C9 does not hold
\* of it
HealUncapped ==
    /\ present
    /\ \E i \in 1..Len(p.inventory) :
         /\ p.inventory[i] = "Potion"
         /\ \A j \in 1..(i - 1) : p.inventory[j] # "Potion"
         /\ Commit([Begin EXCEPT
                      !.p.inventory = SubSeq(@, 1, i - 1) \o SubSeq(@, i + 1, Len(@)),
                      !.p.hp = @ + 6], "heal")

\* heal
Heal ==
    /\ present
    /\ \E i \in 1..Len(p.inventory) :
         /\ p.inventory[i] = "Potion"
         /\ \A j \in 1..(i - 1) : p.inventory[j] # "Potion"
         /\ Commit([Begin EXCEPT
                      !.p.inventory = SubSeq(@, 1, i - 1) \o SubSeq(@, i + 1, Len(@)),
                      !.p.hp = @ + Min(6, p.max_hp - p.hp)], "heal")

\* fight, given its outcome `probe` for the turn draws t when no victory
\* handler draws: if one does run, the command is taken with its draws
FightWith(probe, t) ==
    IF Rewarding(Begin, probe)
    THEN \E v \in VictoryDraws(e.type) :
           Commit(FightBody(Begin, hardcore, v @@ t), "fight")
    ELSE Commit(probe, "fight")

\* fight
Fight ==
    /\ present /\ p.combat
    /\ \E t \in TurnDraws(p, e) :
         FightWith(FightBody(Begin, hardcore, NoVictory @@ t), t)

\* skill, given its outcome `probe` for the draws t, as in FightWith
SkillWith(probe, t) ==
    IF Rewarding(Begin, probe)
    THEN \E v \in VictoryDraws(e.type) :
           Commit(SkillBody(Begin, hardcore, v @@ t), "skill")
    ELSE Commit(probe, "skill")

\* skill without the check of player.skill_cd; C34 does not hold of it
SkillOnCooldown ==
    /\ present /\ p.combat /\ p.clazz # "none"
    /\ e.hp > 0
    /\ \E t \in TurnDraws(p, e), k \in SkillDraws(p.clazz) :
         SkillWith(SkillBody(Begin, hardcore, NoVictory @@ t @@ k), t @@ k)

\* skill
Skill ==
    /\ present /\ p.combat /\ p.clazz # "none"
    /\ p.skill_cd = 0
    /\ e.hp > 0
    /\ \E t \in TurnDraws(p, e), k \in SkillDraws(p.clazz) :
         SkillWith(SkillBody(Begin, hardcore, NoVictory @@ t @@ k), t @@ k)

\* run, given its outcome `probe` for the draws t, as in FightWith
RunWith(probe, t) ==
    IF Rewarding(Begin, probe)
    THEN \E v \in VictoryDraws(e.type) :
           Commit(RunBody(Begin, hardcore, v @@ t), "run")
    ELSE Commit(probe, "run")

\* run
Run ==
    /\ present /\ p.combat
    /\ \E r \in RunDraws :
       \E t \in IF r.escape THEN {NoTurn} ELSE TurnDraws(p, e) :
         RunWith(RunBody(Begin, hardcore, NoVictory @@ t @@ r), t @@ r)

----------------------------------------------------------------------------
(* The bot: AdventureBot.__init__ restores the save file, then commands run *)

\* a player as set_class leaves it
ClassedPlayer(c) ==
    [NewPlayer EXCEPT !.clazz = c,
                      !.max_hp = BASE_MAX_HP + HpBonus(c),
                      !.hp = BASE_MAX_HP + HpBonus(c)]

\* The contents of player_state.json the model starts from: no save, a
\* player out of combat, or a player saved in a fight whose enemy has
\* fallen.  json cannot hold an Encounter, so a restored fight has none.
SavedHp == {0}
LoadFiles ==
    {[present |-> FALSE, p |-> NewPlayer, e |-> NoEnemy]}
    \cup {[present |-> TRUE, p |-> ClassedPlayer(c), e |-> NoEnemy] : c \in Classes}
    \cup {[present |-> TRUE,
           p |-> [ClassedPlayer("warrior") EXCEPT !.combat = TRUE],
           e |-> [MakeMob(NewPlayer, row) EXCEPT !.hp = h, !.oid = 1]] :
          row \in MobRows, h \in SavedHp}

Init ==
    /\ hardcore \in BOOLEAN
    /\ failed = FALSE
    /\ last = "load"
    /\ tasks = NoTasks
    /\ loot = NoDrop
    /\ fx = NoFx
    /\ disk = NoDisk
    /\ \E f \in LoadFiles :
         LET h0 == [NoHistory EXCEPT
                      !.made = IF f.p.combat THEN 1 ELSE 0,
                      !.loadedDead = f.p.combat /\ f.e.hp <= 0]
             w0 == [World(f.p, f.e, <<>>, h0) EXCEPT !.present = f.present]
             w == AutoresolveDeadFoesOnLoad(w0, NoVictory)
         IN /\ p = w.p /\ e = w.e /\ encs = w.encs /\ gh = w.gh
            /\ present = w.present

Next ==
    \/ Start
    \/ SetClass
    \/ Hunt
    \/ ExploreBoss
    \/ ExploreEvent
    \/ Choose
    \/ Heal
    \/ Fight
    \/ Skill
    \/ Run

Spec == Init /\ [][Next]_vars

----------------------------------------------------------------------------
(* The engine driven call by call: a player and an enemy are put into an   *)
(* Encounter and apply_damage, reward_player_once and end are called on    *)
(* them in any order, an exception being caught by the caller.             *)

\* amounts handed to apply_damage
Amounts == {-1, 0, 3, 30}

\* experience a player starts the calls with
StartXp == {0, 8}

\* the state a call leaves behind
ApiCommit(w, name) ==
    /\ p' = w.p
    /\ e' = w.e
    /\ encs' = w.encs
    /\ gh' = w.gh
    /\ failed' = w.exc
    /\ last' = name
    /\ UNCHANGED <<present, hardcore, tasks, loot, fx, disk>>

\* start_mob_combat(p)
ApiStartMobCombat ==
    /\ ~p.combat /\ Len(encs) < MaxEnc
    /\ \E row \in MobRows : ApiCommit(StartMobCombat(Begin, row), "start_mob_combat")

\* start_boss_combat(p)
ApiStartBossCombat ==
    /\ ~p.combat /\ Len(encs) < MaxEnc
    /\ \E row \in BossRows : ApiCommit(StartBossCombat(Begin, row), "start_boss_combat")

\* apply_damage, given its outcome `probe` when no victory handler draws
ApiApplyDamageWith(probe, target, amount) ==
    IF Rewarding(Begin, probe)
    THEN \E v \in VictoryDraws(e.type) :
           ApiCommit(ApplyDamage(Begin, target, amount, v), "apply_damage")
    ELSE ApiCommit(probe, "apply_damage")

\* apply_damage(target, amount) on the player or on the enemy of the fight
ApiApplyDamage ==
    /\ e.oid # 0
    /\ \E target \in {"player", "enemy"}, amount \in Amounts :
         ApiApplyDamageWith(ApplyDamage(Begin, target, amount, NoVictory),
                            target, amount)

\* enc.reward_player_once() on the enemy's Encounter
ApiRewardPlayerOnce ==
    /\ e.encounter # 0
    /\ \E v \in VictoryDraws(e.type) :
         ApiCommit(RewardPlayerOnce(Begin, e.encounter, v), "reward_player_once")

\* enc.end() on the enemy's Encounter
ApiEnd ==
    /\ e.encounter # 0
    /\ gh.ends[e.encounter] < MaxEnds
    /\ ApiCommit(End(Begin, e.encounter), "end")

InitApi ==
    /\ hardcore = FALSE
    /\ failed = FALSE
    /\ last = "new"
    /\ present = TRUE
    /\ \E c \in Classes, x \in StartXp : p = [ClassedPlayer(c) EXCEPT !.xp = x]
    /\ e = NoEnemy
    /\ encs = <<>>
    /\ gh = NoHistory
    /\ tasks = NoTasks
    /\ loot = NoDrop
    /\ fx = NoFx
    /\ disk = NoDisk

NextApi ==
    \/ ApiStartMobCombat
    \/ ApiStartBossCombat
    \/ ApiApplyDamage
    \/ ApiRewardPlayerOnce
    \/ ApiEnd

SpecApi == InitApi /\ [][NextApi]_vars

----------------------------------------------------------------------------
(* The engine driven through the entry points the bot uses: fights are     *)
(* started, apply_damage is called on either participant and end_combat    *)
(* is called with either outcome, in any order.                            *)

\* end_combat, given its outcome `probe` when no victory handler draws
ApiEndCombatWith(probe, victory) ==
    IF Rewarding(Begin, probe)
    THEN \E v \in VictoryDraws(e.type) :
           ApiCommit(EndCombat(Begin, victory, v), "end_combat")
    ELSE ApiCommit(probe, "end_combat")

\* engine.end_combat(p, victory)
ApiEndCombat ==
    \E victory \in BOOLEAN :
       ApiEndCombatWith(EndCombat(Begin, victory, NoVictory), victory)

NextEngine ==
    \/ ApiStartMobCombat
    \/ ApiStartBossCombat
    \/ ApiApplyDamage
    \/ ApiEndCombat

SpecEngine == InitApi /\ [][NextEngine]_vars

----------------------------------------------------------------------------
(* Command tasks of one player dispatched together.  A task runs from its   *)
(* decorators to its first await in one step; the scheduler may run another *)
(* task at an await.  The only game state a task writes after an await is   *)
(* what after_round writes, so a task has one resumption.                   *)

\* the commands of a fight
Cmds == {"fight", "skill", "run"}

\* require_player and require_combat, and for skill require_class and the
\* cooldown check
Admitted(cmd) ==
    /\ present /\ p.combat
    /\ cmd = "skill" => (p.clazz # "none" /\ p.skill_cd = 0)

\* the draws of one command
TaskDraws(cmd) ==
    CASE cmd = "fight" -> TurnDraws(p, e)
      [] cmd = "skill" ->
           {t @@ k : t \in TurnDraws(p, e), k \in SkillDraws(p.clazz)}
      [] OTHER ->
           {t @@ r : t \in TurnDraws(p, e), r \in {[escape |-> FALSE]}}
           \cup {NoTurn @@ [escape |-> TRUE]}

\* a command handler up to its first await
TaskRound(cmd, w, hc, d) ==
    CASE cmd = "fight" -> FightRound(w, hc, d)
      [] cmd = "skill" -> SkillRound(w, hc, d)
      [] OTHER -> RunRound(w, hc, d)

\* the state task t leaves behind at its first await or at its return
TaskSettle(w, t, cmd) ==
    /\ Settle(w, cmd)
    /\ tasks' = [tasks EXCEPT ![t] = IF w.pending THEN "sent" ELSE "done"]

\* task t runs cmd, given its outcome `probe` for the draws d when no
\* victory handler draws
TaskBeginWith(probe, t, cmd, d) ==
    IF Rewarding(Begin, probe)
    THEN \E v \in VictoryDraws(e.type) :
           TaskSettle(TaskRound(cmd, Begin, hardcore, v @@ d), t, cmd)
    ELSE TaskSettle(probe, t, cmd)

\* a decorator or the cooldown check answers the command and returns
TaskReject(t, cmd) ==
    /\ tasks' = [tasks EXCEPT ![t] = "done"]
    /\ last' = cmd
    /\ failed' = FALSE
    /\ UNCHANGED <<p, e, encs, present, hardcore, gh, loot, fx, disk>>

\* a dispatched task runs for the first time
TaskBegin ==
    \E t \in Tasks, cmd \in Cmds :
       /\ tasks[t] = "new"
       /\ IF Admitted(cmd)
          THEN \E d \in TaskDraws(cmd) :
                 TaskBeginWith(TaskRound(cmd, Begin, hardcore, NoVictory @@ d),
                               t, cmd, d)
          ELSE TaskReject(t, cmd)

\* a task suspended in its send runs again: after_round on the Player object
\* it holds (no longer the stored one after a hardcore death), then persist
TaskResume ==
    \E t \in Tasks :
       /\ tasks[t] = "sent"
       /\ tasks' = [tasks EXCEPT ![t] = "done"]
       /\ p' = IF present THEN AfterRound(World(p, e, encs, gh)).p ELSE p
       /\ last' = "after_round"
       /\ failed' = FALSE
       /\ UNCHANGED <<e, encs, present, hardcore, gh, loot, fx, disk>>

InitTasks ==
    /\ hardcore \in BOOLEAN
    /\ failed = FALSE
    /\ last = "new"
    /\ present = TRUE
    /\ \E c \in Classes, x \in StartXp : p = [ClassedPlayer(c) EXCEPT !.xp = x]
    /\ e = NoEnemy
    /\ encs = <<>>
    /\ gh = NoHistory
    /\ tasks = NoTasks
    /\ loot = NoDrop
    /\ fx = NoFx
    /\ disk = NoDisk

NextTasks ==
    \/ ApiStartMobCombat
    \/ ApiStartBossCombat
    \/ TaskBegin
    \/ TaskResume

SpecTasks == InitTasks /\ [][NextTasks]_vars

----------------------------------------------------------------------------
(* Exploring: a player with a class hunts, explores and chooses; no fight  *)
(* is fought, so hunt and explore start one fight at most and the events   *)
(* stop at MaxStep.                                                        *)

NextExplore ==
    \/ Hunt
    \/ ExploreBoss
    \/ ExploreEvent
    \/ ChooseFreely

SpecExplore == InitTasks /\ [][NextExplore]_vars

----------------------------------------------------------------------------
(* game/drops.py.  A probability is a fraction pr/den of integers, so that  *)
(* a sum, a cap or a threshold is compared exactly; the built-in tables are *)
(* written in units of 1/Unit.  The rounding of the floats the code uses is *)
(* many orders below every margin compared here.                            *)

Unit == 100000

\* EPS = 1e-9 and the tolerance 1e-6 of __post_init__, as 1/EpsInv, 1/TolInv
EpsInv == 1000000000
TolInv == 1000000

\* the fields of a DropTable
Fields ==
    {"common", "uncommon", "rare", "epic", "legendary", "mythic", "no_drop"}

\* DropSource
DropSources ==
    {"mob_kill", "boss_kill", "exploration", "chest_common", "chest_uncommon",
     "chest_rare", "chest_epic", "quest_reward", "daily_reward"}

\* sum(probs.values())
Total(pr) ==
    pr.common + pr.uncommon + pr.rare + pr.epic + pr.legendary + pr.mythic
    + pr.no_drop

Abs(x) == IF x < 0 THEN -x ELSE x

\* _normalize_probs: v / s for every value, 1/7 each when the sum is <= EPS
NormalizeProbs(t) ==
    LET vals == [f \in Fields |-> Max(0, t.pr[f])]
        s == Total(vals)
    IN IF s <= t.den \div EpsInv
       THEN [pr |-> [f \in Fields |-> 1], den |-> 7]
       ELSE [pr |-> vals, den |-> s]

\* DropTable.__post_init__ (its ValueError needs a normalised sum off 1.0)
DropTable(t) ==
    LET probs == [f \in Fields |-> Max(0, t.pr[f])]
    IN IF Abs(Total(probs) - t.den) > t.den \div TolInv
       THEN NormalizeProbs([pr |-> probs, den |-> t.den])
       ELSE [pr |-> probs, den |-> t.den]

\* a table in units of 1/Unit
Chances(c, u, r, ep, l, m, n) ==
    [pr |-> [common |-> c, uncommon |-> u, rare |-> r, epic |-> ep,
             legendary |-> l, mythic |-> m, no_drop |-> n],
     den |-> Unit]

\* built-in tables in which the chest of epic quality holds 0.45 epic; C18
\* does not hold of them
InitializeDropTablesRich(source) ==
    DropTable(
      CASE source = "mob_kill" -> Chances(50000, 20000, 15000, 5000, 500, 10, 9490)
        [] source = "chest_epic" -> Chances(10000, 18000, 21000, 45000, 5000, 1000, 0)
        [] OTHER -> Chances(22000, 24000, 34000, 15000, 4000, 1000, 0))

\* _initialize_drop_tables
InitializeDropTables(source) ==
    DropTable(
      CASE source = "mob_kill" -> Chances(50000, 20000, 15000, 5000, 500, 10, 9490)
        [] source = "boss_kill" -> Chances(22000, 24000, 34000, 15000, 4000, 1000, 0)
        [] source = "exploration" -> Chances(58000, 14000, 18000, 8000, 200, 5, 1795)
        [] source = "chest_common" -> Chances(70000, 15000, 14000, 1000, 0, 0, 0)
        [] source = "chest_uncommon" -> Chances(55000, 30000, 12000, 3000, 0, 0, 0)
        [] source = "chest_rare" -> Chances(30000, 20000, 40000, 9000, 1000, 0, 0)
        [] source = "chest_epic" -> Chances(10000, 18000, 36000, 30000, 5000, 1000, 0)
        [] source = "quest_reward" -> Chances(15000, 15000, 39500, 25000, 5000, 500, 0)
        [] OTHER -> Chances(37000, 18000, 29000, 12000, 3000, 1000, 0))

\* LevelScaling, the boosts in units of 1/Unit
base_level == 1
uncommon_boost_per_level == 700
rare_boost_per_level == 300
epic_boost_per_level == 100
legendary_boost_per_level == 30
mythic_boost_per_level == 5
max_level_bonus == 30

\* the caps and the floor of calculate_scaled_chances in units of 1/Unit
RareCap == 80000
EpicCap == 40000
LegendaryCap == 20000
MythicCap == 5000
CommonFloor == 5000

\* level_bonus without the ceiling of max_level_bonus; C32 does not hold of it
LevelBonusUnbounded(player_level) == Max(0, player_level - base_level)

\* level_bonus of calculate_scaled_chances
LevelBonus(player_level) ==
    Min(Max(0, player_level - base_level), max_level_bonus)

\* `capped` of calculate_scaled_chances
Capped(base, level_bonus) ==
    [uncommon |-> base.pr.uncommon + level_bonus * uncommon_boost_per_level,
     rare |-> Min(RareCap, base.pr.rare + level_bonus * rare_boost_per_level),
     epic |-> Min(EpicCap, base.pr.epic + level_bonus * epic_boost_per_level),
     legendary |-> Min(LegendaryCap, base.pr.legendary
                                     + level_bonus * legendary_boost_per_level),
     mythic |-> Min(MythicCap, base.pr.mythic
                               + level_bonus * mythic_boost_per_level)]

\* `scaled` of calculate_scaled_chances: the increase is taken from common
Scaled(base, capped) ==
    LET actual_increase ==
          (capped.uncommon - base.pr.uncommon) + (capped.rare - base.pr.rare)
          + (capped.epic - base.pr.epic)
          + (capped.legendary - base.pr.legendary)
          + (capped.mythic - base.pr.mythic)
        new_common == Max(CommonFloor, base.pr.common - actual_increase)
    IN [pr |-> [common |-> new_common, uncommon |-> capped.uncommon,
                rare |-> capped.rare, epic |-> capped.epic,
                legendary |-> capped.legendary, mythic |-> capped.mythic,
                no_drop |-> base.pr.no_drop],
        den |-> base.den]

\* calculate_scaled_chances that returns `scaled` as computed; C17 does not
\* hold of it
CalculateScaledChancesRaw(base_table, player_level) ==
    IF LevelBonus(player_level) <= 0 THEN base_table
    ELSE Scaled(base_table, Capped(base_table, LevelBonus(player_level)))

\* calculate_scaled_chances
CalculateScaledChances(base_table, player_level) ==
    IF LevelBonus(player_level) <= 0 THEN base_table
    ELSE DropTable(NormalizeProbs(
           Scaled(base_table, Capped(base_table, LevelBonus(player_level)))))

\* random.random() in units of 1/RollUnit
RollUnit == 1000
RollPoints == {0, 5, 10, 50, 150, 300, 500, 900, 990, 999}

\* `thresholds` of roll_rarity, in its order
Thresholds == <<"mythic", "legendary", "epic", "rare", "uncommon", "common">>

\* the loop of roll_rarity from the i-th of the thresholds `order`, acc
\* holding the sum before it
RECURSIVE Walk(_, _, _, _, _)
Walk(t, order, roll, i, acc) ==
    IF i > Len(order) THEN "none"
    ELSE IF roll * t.den < (acc + t.pr[order[i]]) * RollUnit THEN order[i]
    ELSE Walk(t, order, roll, i + 1, acc + t.pr[order[i]])

\* roll_rarity walking from common up to mythic; C20 does not hold of it
RollRarityAscending(t, roll) ==
    Walk(t, <<"common", "uncommon", "rare", "epic", "legendary", "mythic">>,
         roll, 1, 0)

\* roll_rarity on the table t it has scaled, for the draw roll
RollRarity(t, roll) == Walk(t, Thresholds, roll, 1, 0)

\* the levels handed to the DropSystem
Levels == 1..MaxLevel

\* a call that is about to be made on the DropSystem
Request(source, player_level, roll, exclude) ==
    [call |-> "none", source |-> source, level |-> player_level, roll |-> roll,
     exclude |-> exclude]

\* what the DropSystem has answered to the request: a table, the rarity if
\* it was rolled, and the item if one was generated
Answer(call, t, rarity, item) ==
    [call |-> call, source |-> loot.source, level |-> loot.level,
     roll |-> loot.roll, exclude |-> loot.exclude, table |-> t,
     rarity |-> rarity, item |-> item]

\* calculate_scaled_chances(self.drop_tables[source], player_level)
DropScale ==
    /\ loot.call = "none"
    /\ loot' = Answer("calculate_scaled_chances",
                      CalculateScaledChances(InitializeDropTables(loot.source),
                                             loot.level),
                      "none", NoItem)
    /\ UNCHANGED <<p, e, encs, present, hardcore, failed, last, gh, tasks, fx, disk>>

\* the table and the rarity of roll_rarity(source, player_level)
Rolled(t, roll) == Answer("roll_rarity", t, RollRarity(t, roll), NoItem)

\* roll_rarity(source, player_level)
DropRoll ==
    /\ loot.call = "none"
    /\ loot' = Rolled(CalculateScaledChances(InitializeDropTables(loot.source),
                                             loot.level),
                      loot.roll)
    /\ UNCHANGED <<p, e, encs, present, hardcore, failed, last, gh, tasks, fx, disk>>

\* the exclude_items lists handed to generate_drop
Excludes == {{}, {"Enchanted Dagger"}, {"Potion", "Herb"}}

\* generate_drop on the table t it has scaled: random.choice among what is
\* available for the rarity rolled
Generated(t, rarity) ==
    \E item \in GenerateDrop(rarity, loot.exclude) :
       loot' = Answer("generate_drop", t, rarity, item)

\* generate_drop(source, player_level, exclude_items)
DropGenerate ==
    /\ loot.call = "none"
    /\ Generated(CalculateScaledChances(InitializeDropTables(loot.source),
                                        loot.level),
                 RollRarity(CalculateScaledChances(
                              InitializeDropTables(loot.source), loot.level),
                            loot.roll))
    /\ UNCHANGED <<p, e, encs, present, hardcore, failed, last, gh, tasks, fx, disk>>

\* DropSystem.__init__ has built the tables; a source, a player level and a
\* draw are at hand
InitDrops ==
    /\ hardcore = FALSE
    /\ failed = FALSE
    /\ last = "new"
    /\ present = FALSE
    /\ p = NewPlayer
    /\ e = NoEnemy
    /\ encs = <<>>
    /\ gh = NoHistory
    /\ tasks = NoTasks
    /\ fx = NoFx
    /\ disk = NoDisk
    /\ \E source \in DropSources, player_level \in Levels, roll \in RollPoints,
          exclude \in Excludes :
         loot = Request(source, player_level, roll, exclude)

NextDrops ==
    \/ DropScale
    \/ DropRoll
    \/ DropGenerate

SpecDrops == InitDrops /\ [][NextDrops]_vars

----------------------------------------------------------------------------
\* Item effects and equipment (src/game/effects.py, src/game/models.py).

MaxOps == 3      \* calls made on one player in a run

\* The items of src/game/items.py that are modelled: their slot list
\* (Player._slots_for_subtype of their sub-type; empty for a consumable or a
\* material) and their effects (type, value; none of them has a duration).
Effect(type, value) == [type |-> type, value |-> value, duration |-> 0]
ITEMS ==
    ("Potion" :> [slots |-> <<>>, effects |-> <<Effect("heal", 6)>>])
    @@ ("Stick" :> [slots |-> <<"main_hand">>,
                    effects |-> <<Effect("damage", 1)>>])
    @@ ("Void Plate" :> [slots |-> <<"armor">>,
                         effects |-> <<Effect("armor", 12),
                                       Effect("void_protection", 20)>>])
    @@ ("Angel's Embrace" :> [slots |-> <<"armor">>,
                              effects |-> <<Effect("heal", 12)>>])
    @@ ("Shadow Step Shoes" :> [slots |-> <<"footwear">>,
                                effects |-> <<Effect("stealth_bonus", 20),
                                              Effect("stealth", 1)>>])
    @@ ("Sword of Truth" :> [slots |-> <<"main_hand">>,
                             effects |-> <<Effect("damage", 20),
                                           Effect("true_strike", 1),
                                           Effect("detect_lies", 1)>>])

\* Player._EQUIP_BASELINE, the attributes _clear_equipment_bonuses resets
\* (those that a modelled effect writes)
EQUIP_BASELINE ==
    [damage_bonus |-> 0, armor_bonus |-> 0, stealth_bonus |-> 0,
     void_protection |-> 0, true_strike |-> FALSE, detect_lies |-> FALSE]

\* Player._EQUIP_EFFECT_WHITELIST (the modelled effect types in it)
EQUIP_EFFECT_WHITELIST ==
    {"damage", "armor", "true_strike", "void_protection", "stealth",
     "stealth_bonus", "detect_lies"}

\* the keys of EffectProcessor.effect_handlers that are modelled
Handlers ==
    {"heal", "damage", "armor", "true_strike", "burn", "void_protection",
     "stealth", "stealth_bonus", "detect_lies"}

\* A fresh Player with the modelled items in the inventory (two Sticks). An attribute the
\* dataclass does not declare (void_resist) reads as the 0 its handler's
\* hasattr guard gives it.
Hero ==
    [hp |-> 10, max_hp |-> BASE_MAX_HP,
     inventory |-> [i \in DOMAIN ITEMS |-> IF i = "Stick" THEN 2 ELSE 1],
     equipped |-> [s \in {"armor", "footwear", "main_hand"} |-> NoItem],
     stats |-> EQUIP_BASELINE @@ [void_resist |-> 0, stealth_turns |-> 0]]

\* no enemy is passed (None), or an Enemy with its resistances, statuses and
\* vulnerabilities
NoFoe == [here |-> FALSE]
Foe(fire_resist, vulnerabilities) ==
    [here |-> TRUE, fire_resist |-> fire_resist, cold_resist |-> 0,
     magic_resist |-> 0, vulnerabilities |-> vulnerabilities, burn |-> 0]

\* a message: the text, with the number, the effect name and the reason of a
\* failure formatted into it
Msg(text, value, name, reason) ==
    [text |-> text, value |-> value, name |-> name, reason |-> reason]

\* what a call leaves: the player, the enemy, the messages returned and
\* whether an exception left the call
Done(pl, en, ret, exc) == [pl |-> pl, en |-> en, ret |-> ret, exc |-> exc]

\* int(x * 1.5): the product truncated towards zero
Int15(x) == IF x >= 0 THEN (3 * x) \div 2 ELSE 0 - ((3 * (0 - x)) \div 2)

\* f"{damage_type}_resist"
ResistAttr(damage_type) ==
    CASE damage_type = "fire" -> "fire_resist"
      [] damage_type = "cold" -> "cold_resist"
      [] damage_type = "magic" -> "magic_resist"
      [] OTHER -> "ice_resist"

\* EffectProcessor.calculate_elemental_damage without the floor of 1
CalculateElementalDamageUnfloored(base_damage, damage_type, enemy) ==
    IF ~enemy.here THEN base_damage
    ELSE LET actual_damage == IF damage_type \in enemy.vulnerabilities
                              THEN Int15(base_damage) ELSE base_damage
         IN IF ResistAttr(damage_type) \in DOMAIN enemy
            THEN actual_damage - enemy[ResistAttr(damage_type)]
            ELSE actual_damage

\* EffectProcessor.calculate_elemental_damage
CalculateElementalDamage(base_damage, damage_type, enemy) ==
    IF ~enemy.here THEN base_damage
    ELSE LET actual_damage == IF damage_type \in enemy.vulnerabilities
                              THEN Int15(base_damage) ELSE base_damage
         IN IF ResistAttr(damage_type) \in DOMAIN enemy
            THEN Max(1, actual_damage - enemy[ResistAttr(damage_type)])
            ELSE actual_damage

\* player.<attr> += value
Add(pl, attr, value) == [pl EXCEPT !.stats[attr] = @ + value]

\* The handler registered for effect_type, called as
\* handler(value, player, enemy, duration). _effect_true_strike takes one
\* argument, so the call itself raises TypeError.
Handler(effect_type, value, pl, en, duration) ==
    CASE effect_type = "heal" ->
           Done([pl EXCEPT !.hp = Min(pl.max_hp, pl.hp + value)], en,
                IF Min(pl.max_hp, pl.hp + value) > pl.hp
                THEN Msg("healed HP", Min(pl.max_hp, pl.hp + value) - pl.hp,
                         "", "")
                ELSE Msg("already at full health", 0, "", ""), FALSE)
      [] effect_type = "damage" ->
           Done(Add(pl, "damage_bonus", value), en,
                Msg("damage increased by", value, "", ""), FALSE)
      [] effect_type = "armor" ->
           Done(Add(pl, "armor_bonus", value), en,
                Msg("armor increased by", value, "", ""), FALSE)
      [] effect_type = "stealth_bonus" ->
           Done(Add(pl, "stealth_bonus", value), en,
                Msg("stealth effectiveness increased by", value, "", ""),
                FALSE)
      [] effect_type = "void_protection" ->
           Done(Add(pl, "void_resist", value), en,
                Msg("void resistances increased by", value, "", ""), FALSE)
      [] effect_type = "stealth" ->
           Done([pl EXCEPT !.stats.stealth_turns =
                     Max(@, IF duration # 0 THEN duration ELSE value)], en,
                Msg("stealthed for turns",
                    IF duration # 0 THEN duration ELSE value, "", ""), FALSE)
      [] effect_type = "detect_lies" ->
           Done([pl EXCEPT !.stats.detect_lies = TRUE], en,
                Msg("can now detect all lies and deception", 0, "", ""), FALSE)
      [] effect_type = "burn" ->
           IF en.here
           THEN Done(pl, [en EXCEPT !.burn =
                              @ + (IF duration # 0 THEN duration ELSE 3)],
                     Msg("enemy burning", value, "", ""), FALSE)
           ELSE Done(pl, en, Msg("flames surround you harmlessly", 0, "", ""),
                     FALSE)
      [] OTHER ->
           Done(pl, en,
                Msg("takes 2 positional arguments but 5 were given", 0, "", ""),
                TRUE)

\* EffectProcessor.apply_effect without its try/except
ApplyEffectUnguarded(effect_type, value, pl, en, duration) ==
    IF effect_type \notin Handlers
    THEN Done(pl, en, Msg("Unknown effect: ", 0, effect_type, ""), FALSE)
    ELSE Handler(effect_type, value, pl, en, duration)

\* EffectProcessor.apply_effect with the unknown name handed to a handler
ApplyEffectUnchecked(effect_type, value, pl, en, duration) ==
    IF Handler(effect_type, value, pl, en, duration).exc
    THEN Done(pl, en, Msg("Effect failed: ", 0, effect_type,
                       Handler(effect_type, value, pl, en, duration).ret.text), FALSE)
    ELSE Handler(effect_type, value, pl, en, duration)

\* EffectProcessor.apply_effect
ApplyEffect(effect_type, value, pl, en, duration) ==
    IF effect_type \notin Handlers
    THEN Done(pl, en, Msg("Unknown effect: ", 0, effect_type, ""), FALSE)
    ELSE IF Handler(effect_type, value, pl, en, duration).exc
         THEN Done(Handler(effect_type, value, pl, en, duration).pl,
                   Handler(effect_type, value, pl, en, duration).en,
                   Msg("Effect failed: ", 0, effect_type,
                       Handler(effect_type, value, pl, en, duration).ret.text), FALSE)
         ELSE Handler(effect_type, value, pl, en, duration)

\* the loop of apply_item_effects over item.effects from the i-th on, each
\* message appended to the results
RECURSIVE ApplyEach(_, _, _)
ApplyEach(effects, i, r) ==
    IF r.exc \/ i > Len(effects) THEN r
    ELSE ApplyEach(effects, i + 1,
                   [ApplyEffect(effects[i].type, effects[i].value, r.pl, r.en,
                                effects[i].duration)
                    EXCEPT !.ret = Append(r.ret, @)])

\* apply_item_effects
ApplyItemEffects(item_name, pl, en) ==
    IF item_name \notin DOMAIN ITEMS
    THEN Done(pl, en, <<Msg("Unknown item: ", 0, item_name, "")>>, FALSE)
    ELSE ApplyEach(ITEMS[item_name].effects, 1, Done(pl, en, <<>>, FALSE))

\* every effect of the equipped items, whitelisted or not; C33 does not hold
\* of it
EquippedEffectsUnfiltered(pl) ==
    LET Of(slot) == IF pl.equipped[slot] = NoItem THEN <<>>
                    ELSE ITEMS[pl.equipped[slot]].effects
    IN Of("armor") \o Of("footwear") \o Of("main_hand")

\* the whitelisted effects of the equipped items, in the order of
\* self.equipped.items()
EquippedEffects(pl) ==
    LET Of(slot) == IF pl.equipped[slot] = NoItem THEN <<>>
                    ELSE SelectSeq(ITEMS[pl.equipped[slot]].effects,
                                   LAMBDA eff : eff.type \in EQUIP_EFFECT_WHITELIST)
    IN Of("armor") \o Of("footwear") \o Of("main_hand")

\* Player._recompute_equipment_effects: _clear_equipment_bonuses, then every
\* whitelisted effect of every equipped item through apply_effect
RecomputeEquipmentEffects(pl) ==
    ApplyEach(EquippedEffects(pl), 1,
              Done([pl EXCEPT !.stats = EQUIP_BASELINE @@ @], NoFoe, <<>>,
                   FALSE)).pl

\* the first empty slot of the list, else its first slot
TargetSlot(pl, slots) ==
    IF \E k \in 1..Len(slots) : pl.equipped[slots[k]] = NoItem
    THEN slots[CHOOSE k \in 1..Len(slots) :
                 /\ pl.equipped[slots[k]] = NoItem
                 /\ \A j \in 1..(k - 1) : pl.equipped[slots[j]] # NoItem]
    ELSE slots[1]

\* what equip_item and unequip_item return: the player, success, the text
Told(pl, ok, text) == [pl |-> pl, ok |-> ok, text |-> text]

\* equip_item that does not put the item it swaps out back into the
\* inventory; C39 does not hold of it
EquipItemLosingSwapped(pl, item_name) ==
    IF item_name \notin DOMAIN ITEMS THEN Told(pl, FALSE, "is not a known item")
    ELSE IF pl.inventory[item_name] = 0 THEN Told(pl, FALSE, "You don't have")
    ELSE IF ITEMS[item_name].slots = <<>>
         THEN Told(pl, FALSE, "can't be equipped")
    ELSE IF \E s \in DOMAIN pl.equipped : pl.equipped[s] = item_name
         THEN Told(pl, FALSE, "is already equipped")
    ELSE Told(RecomputeEquipmentEffects(
                  [pl EXCEPT !.inventory[item_name] = @ - 1,
                             !.equipped[TargetSlot(pl, ITEMS[item_name].slots)]
                                = item_name]),
              TRUE,
              IF pl.equipped[TargetSlot(pl, ITEMS[item_name].slots)] = NoItem
              THEN "Equipped" ELSE "Equipped (swapped out)")

\* Player.equip_item
EquipItem(pl, item_name) ==
    IF item_name \notin DOMAIN ITEMS THEN Told(pl, FALSE, "is not a known item")
    ELSE IF pl.inventory[item_name] = 0 THEN Told(pl, FALSE, "You don't have")
    ELSE IF ITEMS[item_name].slots = <<>>
         THEN Told(pl, FALSE, "can't be equipped")
    ELSE IF \E s \in DOMAIN pl.equipped : pl.equipped[s] = item_name
         THEN Told(pl, FALSE, "is already equipped")
    ELSE LET target == TargetSlot(pl, ITEMS[item_name].slots)
             swapped_out == pl.equipped[target]
             kept == IF swapped_out = NoItem THEN pl.inventory
                     ELSE [pl.inventory EXCEPT ![swapped_out] = @ + 1]
         IN Told(RecomputeEquipmentEffects(
                     [pl EXCEPT !.inventory = [kept EXCEPT ![item_name] = @ - 1],
                                !.equipped[target] = item_name]),
                 TRUE,
                 IF swapped_out = NoItem THEN "Equipped"
                 ELSE "Equipped (swapped out)")

\* the slot unequip_item finds for a query: the slot of that name, else the
\* first slot holding an item of that name, else none
FoundSlot(pl, query) ==
    IF query \in DOMAIN pl.equipped THEN query
    ELSE IF \E s \in DOMAIN pl.equipped : pl.equipped[s] = query
         THEN CHOOSE s \in DOMAIN pl.equipped : pl.equipped[s] = query
         ELSE NoItem

\* Player.unequip_item
UnequipItem(pl, query) ==
    IF FoundSlot(pl, query) = NoItem THEN Told(pl, FALSE, "Nothing equipped for")
    ELSE IF pl.equipped[FoundSlot(pl, query)] = NoItem
         THEN Told(pl, FALSE, "is already empty")
    ELSE LET slot == FoundSlot(pl, query)
             removed == pl.equipped[slot]
         IN Told(RecomputeEquipmentEffects(
                     [pl EXCEPT !.equipped[slot] = NoItem,
                                !.inventory[removed] = @ + 1]),
                 TRUE, "Unequipped")

\* the enemies a call may be given
Foes == {NoFoe, Foe(0, {}), Foe(0, {"fire"}), Foe(5, {"fire", "ice"})}

\* the state after a call: what was called with which argument, the player
\* and the enemy as the call leaves them, and what it returned or raised
Called(call, arg, pl, en, ret, ok, exc, dmg) ==
    [call |-> call, arg |-> arg, pl |-> pl, en |-> en, ret |-> ret, ok |-> ok,
     exc |-> exc, dmg |-> dmg, base |-> 0, n |-> fx.n + 1]

\* the other variables stay as they are
FxFrame ==
    UNCHANGED <<p, e, encs, present, hardcore, failed, last, gh, tasks, loot,
                disk>>

\* EFFECT_PROCESSOR.apply_effect(effect_type, value, player, enemy, duration)
CallApplyEffect ==
    /\ fx.call # "none" /\ fx.n < MaxOps
    /\ \E effect_type \in Handlers \cup {"buff"}, value \in {1, 20},
          duration \in {0, 3} :
         LET r == ApplyEffect(effect_type, value, fx.pl, fx.en, duration)
         IN fx' = Called("apply_effect", effect_type, r.pl, r.en, <<r.ret>>,
                         TRUE, r.exc, 0)
    /\ FxFrame

\* apply_item_effects(item_name, player, enemy)
CallApplyItemEffects ==
    /\ fx.call # "none" /\ fx.n < MaxOps
    /\ \E item_name \in DOMAIN ITEMS \cup {"Nope"} :
         LET r == ApplyItemEffects(item_name, fx.pl, fx.en)
         IN fx' = Called("apply_item_effects", item_name, r.pl, r.en, r.ret,
                         TRUE, r.exc, 0)
    /\ FxFrame

\* EFFECT_PROCESSOR.calculate_elemental_damage(base_damage, damage_type, enemy)
CallCalculateElementalDamage ==
    /\ fx.call # "none" /\ fx.n < MaxOps
    /\ \E base_damage \in {0, 1, 10}, damage_type \in {"fire", "ice"} :
         fx' = [Called("calculate_elemental_damage", damage_type, fx.pl, fx.en,
                       <<>>, TRUE, FALSE,
                       CalculateElementalDamage(base_damage, damage_type, fx.en))
                EXCEPT !.base = base_damage]
    /\ FxFrame

\* player.equip_item(item_name)
CallEquipItem ==
    /\ fx.call # "none" /\ fx.n < MaxOps
    /\ \E item_name \in DOMAIN ITEMS \cup {"Nope"} :
         LET r == EquipItem(fx.pl, item_name)
         IN fx' = Called("equip_item", item_name, r.pl, fx.en,
                         <<Msg(r.text, 0, item_name, "")>>, r.ok, FALSE, 0)
    /\ FxFrame

\* player.unequip_item(item_or_slot)
CallUnequipItem ==
    /\ fx.call # "none" /\ fx.n < MaxOps
    /\ \E query \in DOMAIN ITEMS \cup DOMAIN fx.pl.equipped \cup {"Nope"} :
         LET r == UnequipItem(fx.pl, query)
         IN fx' = Called("unequip_item", query, r.pl, fx.en,
                         <<Msg(r.text, 0, query, "")>>, r.ok, FALSE, 0)
    /\ FxFrame

\* player._recompute_equipment_effects()
CallRecomputeEquipmentEffects ==
    /\ fx.call # "none" /\ fx.n < MaxOps
    /\ fx' = Called("_recompute_equipment_effects", "",
                    RecomputeEquipmentEffects(fx.pl), fx.en, <<>>, TRUE, FALSE, 0)
    /\ FxFrame

\* a fresh player, and the enemy the calls are given
InitEffects ==
    /\ hardcore = FALSE
    /\ failed = FALSE
    /\ last = "new"
    /\ present = FALSE
    /\ p = NewPlayer
    /\ e = NoEnemy
    /\ encs = <<>>
    /\ gh = NoHistory
    /\ tasks = NoTasks
    /\ loot = NoDrop
    /\ disk = NoDisk
    /\ \E en \in Foes :
         fx = [call |-> "new", arg |-> "", pl |-> Hero, en |-> en, ret |-> <<>>,
               ok |-> TRUE, exc |-> FALSE, dmg |-> 0, base |-> 0, n |-> 0]

NextEffects ==
    \/ CallApplyEffect
    \/ CallApplyItemEffects
    \/ CallCalculateElementalDamage

SpecEffects == InitEffects /\ [][NextEffects]_vars

NextEquip ==
    \/ CallEquipItem
    \/ CallUnequipItem
    \/ CallRecomputeEquipmentEffects

SpecEquip == InitEffects /\ [][NextEquip]_vars

----------------------------------------------------------------------------
\* Saving the players (src/storage/json_storage.py, TwitchGame.persist).

Chunks == 2      \* pieces in which json.dump hands a state to the file
MaxVer == 2      \* changes made to the players in memory in a run

\* A file: absent, or holding the first len pieces of the players' state
\* number ver; it is a complete save iff len = Chunks.
NoFile == [exists |-> FALSE, ver |-> 0, len |-> 0]
File(ver, len) == [exists |-> TRUE, ver |-> ver, len |-> len]

\* the other variables stay as they are
DiskFrame ==
    UNCHANGED <<p, e, encs, present, hardcore, failed, last, gh, tasks, loot,
                fx>>

\* a command handler changes a player: self.state is a new state
Mutate ==
    /\ disk.pc = "idle"
    /\ disk.mem < MaxVer
    /\ disk' = [disk EXCEPT !.mem = @ + 1]
    /\ DiskFrame

\* persist() is entered: `async with self.lock` takes the lock, which is free
\* because save() never yields while holding it
PersistEnter ==
    /\ disk.pc = "idle"
    /\ ~disk.lock
    /\ disk' = [disk EXCEPT !.pc = "raw", !.lock = TRUE, !.out = "none",
                            !.prev = disk.path, !.entered = disk.mem]
    /\ DiskFrame

\* JSONStorage.save writing the state into the file at self.path itself
SaveStepInPlace ==
    /\ disk.pc \in {"raw", "open", "dump", "replace"}
    /\ disk' =
         CASE disk.pc = "raw" -> [disk EXCEPT !.pc = "open", !.raw = disk.mem]
           [] disk.pc = "open" ->
                [disk EXCEPT !.pc = "dump", !.path = File(disk.raw, 0)]
           [] disk.pc = "dump" ->
                [disk EXCEPT !.path.len = @ + 1,
                             !.pc = IF disk.path.len + 1 = Chunks
                                    THEN "replace" ELSE "dump"]
           [] OTHER -> [disk EXCEPT !.pc = "leave", !.out = "ok"]
    /\ DiskFrame

\* One step of JSONStorage.save: raw is built from the players in memory; tmp
\* is opened for writing, which empties it; json.dump writes the next piece;
\* the file is closed and os.replace puts tmp in the place of the save file.
SaveStep ==
    /\ disk.pc \in {"raw", "open", "dump", "replace"}
    /\ disk' =
         CASE disk.pc = "raw" -> [disk EXCEPT !.pc = "open", !.raw = disk.mem]
           [] disk.pc = "open" ->
                [disk EXCEPT !.pc = "dump", !.tmp = File(disk.raw, 0)]
           [] disk.pc = "dump" ->
                [disk EXCEPT !.tmp.len = @ + 1,
                             !.pc = IF disk.tmp.len + 1 = Chunks
                                    THEN "replace" ELSE "dump"]
           [] OTHER -> [disk EXCEPT !.pc = "leave", !.out = "ok",
                                    !.path = disk.tmp, !.tmp = NoFile]
    /\ DiskFrame

\* The step save() is at raises (to_json, open, a write of json.dump or
\* os.replace fails): the files stay as the steps before left them.
SaveFail ==
    /\ disk.pc \in {"raw", "open", "dump", "replace"}
    /\ disk' = [disk EXCEPT !.pc = "leave", !.out = "raised",
                            !.fails = TRUE]
    /\ DiskFrame

\* persist() without its try/except: the lock is released and the exception
\* goes on to the caller
PersistLeaveUncaught ==
    /\ disk.pc = "leave"
    /\ disk' = [disk EXCEPT !.pc = "idle", !.lock = FALSE]
    /\ DiskFrame

\* persist() is left: the `async with` releases the lock, and an exception of
\* save() is caught and printed
PersistLeave ==
    /\ disk.pc = "leave"
    /\ disk' = [disk EXCEPT !.pc = "idle", !.lock = FALSE,
                            !.out = IF @ = "raised" THEN "failed" ELSE @]
    /\ DiskFrame

\* the process dies, at any point: the files stay, the memory is lost
Crash ==
    /\ disk.pc \notin {"none", "down"}
    /\ disk' = [disk EXCEPT !.pc = "down", !.lock = FALSE, !.out = "none",
                            !.crashes = TRUE]
    /\ DiskFrame

\* The process starts again and JSONStorage.load reads the save file: no
\* players if there is none, the saved players if json.load can parse it.
Load ==
    /\ disk.pc = "down"
    /\ disk' = [disk EXCEPT
                  !.pc = "idle",
                  !.mem = IF disk.path.exists THEN disk.path.ver ELSE 0,
                  !.out = IF disk.path.exists /\ disk.path.len # Chunks
                          THEN "unreadable" ELSE "loaded"]
    /\ DiskFrame

\* the bot is running, with or without a save file of an earlier run
InitStore ==
    /\ hardcore = FALSE
    /\ failed = FALSE
    /\ last = "new"
    /\ present = FALSE
    /\ p = NewPlayer
    /\ e = NoEnemy
    /\ encs = <<>>
    /\ gh = NoHistory
    /\ tasks = NoTasks
    /\ loot = NoDrop
    /\ fx = NoFx
    /\ \E path \in {NoFile, File(0, Chunks)} :
         disk = [pc |-> "idle", lock |-> FALSE, mem |-> 0, raw |-> 0,
                 path |-> path, tmp |-> NoFile, prev |-> path, entered |-> 0,
                 out |-> "none", fails |-> FALSE, crashes |-> FALSE]

NextStore ==
    \/ Mutate
    \/ PersistEnter
    \/ SaveStep
    \/ SaveFail
    \/ PersistLeave
    \/ Crash
    \/ Load

SpecStore == InitStore /\ [][NextStore]_vars

----------------------------------------------------------------------------
\* The enemy's turn of a round, called on a fight in progress
\* (GameEngine.enemy_turn).

MaxTurns == 3    \* enemy turns in a run

\* MONSTERS rows whose hit can leave a status on the player
VenomRows ==
    { [hp |-> 4, atk |-> 1, armor |-> 0, traits |-> {"poison"},
       rarity |-> "common"] }                         \* Plague Rat

\* what the rounds played so far have left on the enemy
StatusesLeft ==
    { [NoStatuses EXCEPT !.bleed = b, !.stunned = s] : b \in 0..2, s \in 0..1 }

\* the state enemy_turn starts from
Turn == [Begin EXCEPT !.gh.turns = @ + 1]

\* enemy_turn, given its outcome `probe` when no victory handler draws
ApiEnemyTurnWith(probe, t) ==
    IF Rewarding(Begin, probe)
    THEN \E v \in VictoryDraws(e.type) :
           ApiCommit(EnemyTurn(Turn, v @@ t), "enemy_turn")
    ELSE ApiCommit(probe, "enemy_turn")

\* engine.enemy_turn(p, e) in a fight both sides are still standing in
ApiEnemyTurn ==
    /\ e.oid # 0 /\ p.combat /\ e.hp > 0 /\ p.hp > 0
    /\ ~failed
    /\ gh.turns < MaxTurns
    /\ \E t \in TurnDraws(p, e) :
         ApiEnemyTurnWith(EnemyTurn(Turn, NoVictory @@ t), t)

\* A fight some rounds in: the enemy has lost hp or not, carries the
\* statuses the player's skills left, and a boss is three turns or one turn
\* away from its special.
InitRounds ==
    /\ hardcore = FALSE
    /\ failed = FALSE
    /\ last = "new"
    /\ present = TRUE
    /\ tasks = NoTasks
    /\ loot = NoDrop
    /\ fx = NoFx
    /\ disk = NoDisk
    /\ \E c \in Classes, x \in StartXp, boss \in BOOLEAN, low \in BOOLEAN,
          st \in StatusesLeft, cd \in {0, 2} :
         LET w0 == World([ClassedPlayer(c) EXCEPT !.xp = x], NoEnemy, <<>>,
                         NoHistory)
             w == IF boss
                  THEN StartBossCombat(w0, CHOOSE row \in BossRows : TRUE)
                  ELSE StartMobCombat(w0, CHOOSE row \in VenomRows : TRUE)
         IN /\ p = w.p
            /\ e = [w.e EXCEPT !.statuses = st,
                               !.hp = IF low THEN 2 ELSE @,
                               !.special_cd = IF boss THEN cd ELSE 0]
            /\ encs = w.encs
            /\ gh = w.gh

NextRounds == ApiEnemyTurn

SpecRounds == InitRounds /\ [][NextRounds]_vars

----------------------------------------------------------------------------
(* Properties *)

\* the Encounter a participant refers to (0: none)
EncOfPlayer == Or(p.current_encounter, p.encounter)

\* C1: the victory payout of an Encounter (gold, XP and items of
\* _handle_mob_victory / _handle_boss_victory) is applied at most once,
\* whatever commands ran and whichever of them failed.
C1_PayoutAtMostOnce ==
    \A i \in 1..Len(encs) : gh.grants[i] <= 1

\* C2: a command in which an enemy's hp reaches 0 while its Encounter is
\* unresolved ends with exactly one reward grant and exactly one end() made
\* for that Encounter.
C2_KillGrantsAndEndsOnce ==
    [][ ( /\ present /\ p.combat
          /\ e.encounter # 0 /\ e.hp > 0
          /\ ~encs[e.encounter].resolved
          /\ e'.oid = e.oid /\ e'.hp <= 0 )
        => ( /\ gh'.grants[e.encounter] = 1
             /\ gh'.ends[e.encounter] = 1 ) ]_vars

\* C3: reward_player_once leaves the Encounter rewarded; called on an
\* Encounter that has not been rewarded it runs the victory handler once,
\* and called on a rewarded one it returns "" and changes neither the player,
\* the enemy nor any Encounter.
C3_RewardOnceIdempotent ==
    [][ last' = "reward_player_once"
        => ( /\ encs'[e.encounter].rewarded
             /\ ~encs[e.encounter].rewarded => gh'.grants[e.encounter] = 1
             /\ encs[e.encounter].rewarded
                  => ( /\ gh'.rr = "" /\ ~failed'
                       /\ p' = p /\ e' = e /\ encs' = encs
                       /\ gh'.grants = gh.grants ) ) ]_vars

\* a second reward_player_once call has returned ""
C3_Witness ==
    /\ last = "reward_player_once" /\ gh.rr = ""
    /\ gh.grants[e.encounter] = 1 /\ p.gold > 0

\* C4: in every state an Encounter that is rewarded is resolved.
C4_RewardedImpliesResolved ==
    \A i \in 1..Len(encs) : encs[i].rewarded => encs[i].resolved

\* C5: once the bot has restored the save file and run
\* autoresolve_dead_foes_on_load, a player saved with a fallen enemy has been
\* paid the victory reward exactly once and is out of combat.
C5_LoadRecoveryPays ==
    (last = "load" /\ gh.loadedDead) => (gh.legacy = 1 /\ ~p.combat)

\* C6: a command lowers the hp of the player or of the enemy by no more
\* than what engine.apply_damage removed from it during that command.
C6_OnlyApplyDamageLowersHp ==
    [][ /\ (present /\ present' /\ p'.hp < p.hp)
             => p.hp - p'.hp <= gh'.dealtP
        /\ (e.oid # 0 /\ e'.oid = e.oid /\ e'.hp < e.hp)
             => e.hp - e'.hp <= gh'.dealtE ]_vars

C8_NonPositiveAmountIsNoOp ==
    [][ (last' = "apply_damage" /\ gh'.ad.amount <= 0)
        => ( /\ gh'.ad.returned /\ gh'.ad.ret = 0 /\ ~failed'
             /\ p' = p /\ e' = e /\ encs' = encs ) ]_vars

\* such a call has been made on an enemy at 0 hp whose Encounter is
\* unresolved
C8_Witness ==
    /\ last = "apply_damage" /\ gh.ad.amount <= 0 /\ gh.ad.target = "enemy"
    /\ e.encounter # 0 /\ e.hp = 0
    /\ ~encs[e.encounter].resolved

C10_PlayerDeathResolvesUnpaid ==
    [][ ( /\ last' = "apply_damage" /\ gh'.ad.target = "player"
          /\ p.hp > 0 /\ p'.hp = 0
          /\ EncOfPlayer # 0 /\ ~encs[EncOfPlayer].resolved )
        => ( /\ encs'[EncOfPlayer].resolved
             /\ encs'[EncOfPlayer].rewarded = encs[EncOfPlayer].rewarded
             /\ p'.gold = p.gold /\ p'.xp = p.xp /\ p'.level = p.level
             /\ p'.inventory = p.inventory
             /\ gh'.grants = gh.grants ) ]_vars

\* apply_damage has taken the player to 0 hp and the Encounter is resolved
\* and not rewarded
C10_Witness ==
    /\ last = "apply_damage" /\ gh.ad.target = "player" /\ gh.ad.ret > 0
    /\ p.hp = 0 /\ p.encounter # 0
    /\ encs[p.encounter].resolved /\ ~encs[p.encounter].rewarded

\* C11: after end() on an Encounter, the Encounter is resolved, the player's
\* combat record and active-combat flag are cleared, and neither the player
\* nor the enemy refers to that Encounter any more, through current_encounter
\* or through encounter.
C11_EndClearsEveryReference ==
    [][ (last' = "end" /\ ~failed')
        => ( /\ encs'[e.encounter].resolved
             /\ ~p'.combat /\ ~p'.in_combat
             /\ p'.current_encounter # e.encounter
             /\ p'.encounter # e.encounter
             /\ e'.current_encounter # e.encounter
             /\ e'.encounter # e.encounter ) ]_vars

C13_EndIdempotent ==
    [][ (last = "end" /\ last' = "end")
        => (p' = p /\ e' = e /\ encs' = encs) ]_vars

\* end() has been called twice on the Encounter of a wounded player
C13_Witness ==
    /\ last = "end" /\ e.encounter # 0
    /\ gh.ends[e.encounter] >= 2
    /\ p.hp < p.max_hp

\* C14: the rewarded flag of an Encounter that is resolved and not rewarded
\* before a step is still false after it.
C14_NoRewardAfterResolved ==
    [][ \A i \in 1..Len(encs) :
          (encs[i].resolved /\ ~encs[i].rewarded) => ~encs'[i].rewarded ]_vars

\* apply_damage has felled the enemy of an Encounter that was resolved
\* without a reward, and the Encounter is still not rewarded
C14_Witness ==
    /\ last = "apply_damage" /\ gh.ad.target = "enemy" /\ gh.ad.ret > 0
    /\ e.hp = 0 /\ e.encounter # 0
    /\ encs[e.encounter].resolved /\ ~encs[e.encounter].rewarded

\* C15: however two fight, skill or run tasks of one player interleave at
\* their suspension points, the victory payout of the Encounter runs at most
\* once, and once the Encounter is resolved no task changes the enemy or
\* makes the player lose hp.
C15_TasksPayOnceAndStopAtResolved ==
    [][ /\ \A i \in 1..Len(encs') : gh'.grants[i] <= 1
        /\ \A i \in 1..Len(encs) :
             (encs[i].resolved /\ e.encounter = i)
             => (e' = e /\ p'.hp >= p.hp) ]_vars

\* C16: a fight, skill or run handler has applied the whole round, the
\* skill-cooldown decay included, when it first yields: running again after
\* that suspension point it changes nothing of the player.
C16_RoundAppliedBeforeFirstAwait ==
    [][ (\E t \in Tasks : tasks[t] = "sent" /\ tasks'[t] = "done")
        => p' = p ]_vars

\* a table whose seven probabilities are non-negative and sum to 1.0 within
\* 1e-6
WellFormed(t) ==
    /\ \A f \in Fields : t.pr[f] >= 0
    /\ t.den > 0
    /\ Abs(Total(t.pr) - t.den) <= t.den \div TolInv

\* 1%, the grain of the caps and of the floor, in units of 1/Unit
Percent == Unit \div 100

\* t[f] <= bound, for a bound in units of 1/Unit that is a whole percentage
AtMost(t, f, bound) == t.pr[f] * 100 <= (bound \div Percent) * t.den

\* t[f] >= bound, likewise
AtLeast(t, f, bound) == t.pr[f] * 100 >= (bound \div Percent) * t.den

\* C17: the built-in table of every source, and every table that
\* calculate_scaled_chances returns, has seven non-negative probabilities
\* whose sum is 1.0 within 1e-6.
C17_TablesSumToOne ==
    /\ \A source \in DropSources : WellFormed(InitializeDropTables(source))
    /\ loot.call # "none" => WellFormed(loot.table)

\* a table has been scaled whose common tier was held up at its floor, so
\* that the values summed to more than 1 before they were normalised
C17_Witness ==
    /\ loot.call = "calculate_scaled_chances"
    /\ loot.level > base_level
    /\ loot.table.den > Unit

\* C18: in the table returned for any source and level, rare <= 0.80,
\* epic <= 0.40, legendary <= 0.20 and mythic <= 0.05.
C18_CapsRespected ==
    loot.call # "none"
    => ( /\ AtMost(loot.table, "rare", RareCap)
         /\ AtMost(loot.table, "epic", EpicCap)
         /\ AtMost(loot.table, "legendary", LegendaryCap)
         /\ AtMost(loot.table, "mythic", MythicCap) )

\* a table has been scaled for a level beyond the scaling ceiling
C18_Witness ==
    /\ loot.call = "calculate_scaled_chances"
    /\ loot.level > base_level + max_level_bonus
    /\ loot.table.pr.rare > InitializeDropTables(loot.source).pr.rare

\* C19: in the table returned for any source and level, the common
\* probability is at least 0.05.
C19_CommonAtLeastFloor ==
    loot.call # "none" => AtLeast(loot.table, "common", CommonFloor)

\* the sum of the first k thresholds of table t
RECURSIVE Cumulative(_, _)
Cumulative(t, k) ==
    IF k = 0 THEN 0 ELSE Cumulative(t, k - 1) + t.pr[Thresholds[k]]

\* C20: roll_rarity returns the first tier, in the order mythic, legendary,
\* epic, rare, uncommon, common, whose cumulative probability exceeds the
\* draw, and none exactly when the draw is not below the sum of the six
\* tiers; on the common chest's table a draw of 0.005 gives epic and a draw
\* of 0.99 gives common.
C20_RollRarityFirstTierAbove ==
    loot.call = "roll_rarity"
    => LET t == loot.table
           r == loot.roll * t.den
       IN /\ loot.rarity = "none" <=> r >= Cumulative(t, 6) * RollUnit
          /\ \A k \in 1..6 :
                loot.rarity = Thresholds[k]
                <=> ( /\ Cumulative(t, k - 1) * RollUnit <= r
                      /\ r < Cumulative(t, k) * RollUnit )
          /\ (loot.source = "chest_common" /\ loot.level = 1)
             => ( /\ loot.roll = 5 => loot.rarity = "epic"
                  /\ loot.roll = 990 => loot.rarity = "common" )

\* the common chest's table has been rolled with a draw of 0.005
C20_Witness ==
    /\ loot.call = "roll_rarity"
    /\ loot.source = "chest_common" /\ loot.level = 1
    /\ loot.roll = 5 /\ loot.rarity = "epic"

\* C21: generate_drop returns an item of the rarity rolled that is not in
\* exclude_items whenever the catalogue holds one, and returns None only
\* when nothing was rolled or the catalogue holds none.
C21_GenerateDropOfRolledRarity ==
    loot.call = "generate_drop"
    => LET fit == IF loot.rarity = "none" THEN {}
                  ELSE Catalog(loot.rarity) \ loot.exclude
       IN IF fit = {} THEN loot.item = NoItem ELSE loot.item \in fit

\* C22: a boss victory grants at least one and at most three items, no item
\* name twice among them, and its handler returns instead of raising.
C22_BossVictoryGrantsOneToThree ==
    [][ ( /\ e.type = "boss" /\ e.encounter # 0
          /\ Len(encs') = Len(encs)
          /\ gh'.grants[e.encounter] > gh.grants[e.encounter] )
        => LET base == Len(p.inventory)
               got == Len(p'.inventory) - base
           IN /\ got \in 1..3
              /\ \A i, j \in 1..got :
                    i # j => p'.inventory[base + i] # p'.inventory[base + j]
              /\ ~failed' ]_vars


\* C23: apply_effect called with a name that is not in the handler registry
\* returns exactly "Unknown effect: <name>", raises nothing and leaves the
\* player and the enemy as they were.
C23_UnknownEffectIsReported ==
    [][ (fx'.call = "apply_effect" /\ fx'.arg \notin Handlers)
        => /\ fx'.ret = <<Msg("Unknown effect: ", 0, fx'.arg, "")>>
           /\ ~fx'.exc
           /\ fx'.pl = fx.pl
           /\ fx'.en = fx.en ]_vars

C23_Witness ==
    /\ fx.call = "apply_effect"
    /\ fx.arg = "buff"
    /\ fx.en.here
    /\ fx.pl # Hero

\* C24: apply_effect never lets a failure out: a registered handler that
\* fails gives "Effect <name> failed: <reason>", and apply_item_effects goes
\* on to apply the effects that follow the failing one.
C24_HandlerFailureIsContained ==
    [][ /\ fx'.call \in {"apply_effect", "apply_item_effects"} => ~fx'.exc
        /\ ( /\ fx'.call = "apply_effect"
             /\ fx'.arg \in Handlers
             /\ Handler(fx'.arg, 1, fx.pl, fx.en, 0).exc )
           => fx'.ret = <<Msg("Effect failed: ", 0, fx'.arg,
                              Handler(fx'.arg, 1, fx.pl, fx.en, 0).ret.text)>>
        /\ (fx'.call = "apply_item_effects" /\ fx'.arg \in DOMAIN ITEMS)
           => /\ Len(fx'.ret) = Len(ITEMS[fx'.arg].effects)
              /\ fx'.arg = "Sword of Truth"
                 => /\ fx'.ret[2].text = "Effect failed: "
                    /\ fx'.ret[3].text = "can now detect all lies and deception"
                    /\ fx'.pl.stats.detect_lies
                    /\ fx'.pl.stats.damage_bonus = fx.pl.stats.damage_bonus + 20
      ]_vars

C24_Witness ==
    /\ fx.call = "apply_item_effects"
    /\ fx.arg = "Sword of Truth"
    /\ Len(fx.ret) = 3
    /\ fx.ret[2] = Msg("Effect failed: ", 0, "true_strike",
                       "takes 2 positional arguments but 5 were given")
    /\ fx.pl.stats.detect_lies

\* C25: calculate_elemental_damage multiplies the base damage by 1.5, rounded
\* down, when the type is among the enemy's vulnerabilities, then subtracts
\* the resistance of that type with a floor of 1: fire 10 against a
\* fire-vulnerable enemy is 15 with fire_resist 0 and 10 with fire_resist 5,
\* and the result is at least 1 whenever a matching resistance exists.
C25_ElementalDamage ==
    (fx.call = "calculate_elemental_damage" /\ fx.en.here)
    => LET boosted == IF fx.arg \in fx.en.vulnerabilities
                      THEN (3 * fx.base) \div 2 ELSE fx.base
       IN /\ fx.arg = "fire"
             => /\ fx.dmg = Max(1, boosted - fx.en.fire_resist)
                /\ fx.dmg >= 1
          /\ fx.arg = "ice" => fx.dmg = boosted
          /\ (fx.arg = "fire" /\ fx.base = 10 /\ "fire" \in fx.en.vulnerabilities)
             => /\ fx.en.fire_resist = 0 => fx.dmg = 15
                /\ fx.en.fire_resist = 5 => fx.dmg = 10

C25_Witness ==
    /\ fx.call = "calculate_elemental_damage"
    /\ fx.arg = "fire"
    /\ fx.base = 10
    /\ fx.en.here
    /\ "fire" \in fx.en.vulnerabilities
    /\ fx.en.fire_resist = 5
    /\ fx.dmg = 10

\* C26: after any sequence of equip_item and unequip_item the stats that
\* equipment gives depend only on what is equipped now: they are what a fresh
\* player wearing the same items has, so equipping and unequipping an item
\* restores every stat and recomputing again changes none.
C26_StatsFollowEquipment ==
    fx.call # "none"
    => fx.pl.stats
       = RecomputeEquipmentEffects([Hero EXCEPT !.equipped = fx.pl.equipped]).stats


\* C27: at every point of save(), a crash or a failure at any step included,
\* the file at the storage path holds the complete state it held before the
\* save or the complete new state, never a part of one.
C27_SaveFileIsAlwaysComplete ==
    disk.pc # "none"
    => /\ disk.path.exists => disk.path.len = Chunks
       /\ \/ disk.path = disk.prev
          \/ disk.path = File(disk.raw, Chunks)

C27_Witness ==
    /\ disk.pc = "down"
    /\ disk.tmp.exists
    /\ disk.tmp.len \in 1..(Chunks - 1)
    /\ disk.tmp.ver # disk.path.ver
    /\ disk.path = File(1, Chunks)

\* C28: a failure of save() inside persist() does not reach the command
\* handler: persist() returns normally, the players in memory are as they
\* were, and the lock is free for the next persist().
C28_SaveFailureStaysInPersist ==
    [][ (disk.pc = "leave" /\ disk'.pc = "idle")
        => /\ disk'.out \in {"ok", "failed"}
           /\ disk.out = "raised" => disk'.out = "failed"
           /\ disk'.mem = disk.entered
           /\ ~disk'.lock ]_vars

C28_Witness ==
    /\ disk.pc = "leave"
    /\ disk.out = "ok"
    /\ disk.fails
    /\ ~disk.crashes
    /\ disk.path = File(disk.mem, Chunks)


\* C29: every entry of the enemy's and of the player's status map loses one
\* turn in each combat round (here: each enemy_turn that returns) and is
\* removed at 0, so a status of duration d is gone after d rounds.
C29_StatusesTickEveryRound ==
    [][ (gh'.turns = gh.turns + 1 /\ ~failed')
        => \A s \in StatusNames :
             /\ e.statuses[s] > 0 => e'.statuses[s] = e.statuses[s] - 1
             /\ p.statuses[s] > 0
                => p'.statuses[s] \in {p.statuses[s] - 1,
                                      p.statuses[s] - 1 + InflictDuration(e, s)}
      ]_vars

\* C30: when the damage-over-time ticks at the start of enemy_turn bring the
\* enemy to 0 hp, the enemy does nothing else in that turn: no attack, no
\* status inflicted, no boss special; the player's hp and statuses are as
\* they were.
C30_FelledByTicksActsNoMore ==
    [][ ( /\ gh'.turns = gh.turns + 1
          /\ gh'.dealtE >= e.hp )
        => /\ p'.hp = p.hp
           /\ p'.statuses = p.statuses
           /\ gh'.dealtP = 0
           /\ e'.special_cd = e.special_cd
           /\ e'.armor = e.armor ]_vars

\* C30, with the hp a level-up restores: the enemy does nothing else, the
\* player's hp is not lowered and the statuses are as they were.
C30_FelledByTicksActsNoMoreButReward ==
    [][ ( /\ gh'.turns = gh.turns + 1
          /\ gh'.dealtE >= e.hp )
        => /\ p'.hp >= p.hp
           /\ p'.hp # p.hp => p'.level = p.level + 1
           /\ p'.statuses = p.statuses
           /\ gh'.dealtP = 0
           /\ e'.special_cd = e.special_cd
           /\ e'.armor = e.armor ]_vars

C30_Witness ==
    /\ gh.turns > 0
    /\ last = "enemy_turn"
    /\ e.type = "boss"
    /\ e.hp = 0
    /\ e.special_cd = 2
    /\ gh.dealtE = 2
    /\ gh.dealtP = 0

\* C31: a stunned or frozen enemy cannot act: in an enemy_turn whose status
\* ticks find stunned or frozen active, the player takes no damage and no
\* status is inflicted.
C31_StunnedEnemyCannotAct ==
    [][ ( /\ gh'.turns = gh.turns + 1
          /\ e.statuses["stunned"] > 0 \/ e.statuses["frozen"] > 0 )
        => /\ gh'.dealtP = 0
           /\ p'.hp >= p.hp
           /\ p'.statuses = p.statuses ]_vars

\* C32: calculate_scaled_chances returns the base table unchanged for every
\* player_level <= base_level (1), and for every player_level >=
\* base_level + max_level_bonus (31) the probabilities it returns for
\* level 31.
C32_ScalingStartsAboveBaseAndStopsAtCeiling ==
    LET base == InitializeDropTables(loot.source)
    IN /\ \A lv \in -1..base_level : CalculateScaledChances(base, lv) = base
       /\ loot.call = "calculate_scaled_chances"
          => /\ loot.level <= base_level => loot.table = base
             /\ loot.level >= base_level + max_level_bonus
                => loot.table = CalculateScaledChances(
                                  base, base_level + max_level_bonus)

\* a table has been scaled for a level above the ceiling, and it is not the
\* base table
C32_Witness ==
    /\ loot.call = "calculate_scaled_chances"
    /\ loot.level = base_level + max_level_bonus + 2
    /\ loot.table # InitializeDropTables(loot.source)
    /\ loot.table.pr.uncommon
         = InitializeDropTables(loot.source).pr.uncommon
           + max_level_bonus * uncommon_boost_per_level

\* a/b <= c/d for fractions of naturals with b > 0 and d > 0, compared by
\* their whole parts and then by the inverses of the remainders
RECURSIVE FracLeq(_, _, _, _)
FracLeq(a, b, c, d) ==
    IF a \div b # c \div d THEN a \div b < c \div d
    ELSE IF a % b = 0 THEN TRUE
    ELSE IF c % d = 0 THEN FALSE
    ELSE FracLeq(d, c % d, b, a % b)

\* C36: raising the player's level never lowers a higher-tier drop chance:
\* for every source and all levels L1 <= L2 the scaled probability of
\* uncommon, rare, epic, legendary and mythic at L2 is at least its value
\* at L1.
C36_HigherLevelNeverLowersATier ==
    loot.call = "calculate_scaled_chances"
    => \A L1 \in Levels :
         L1 <= loot.level
         => LET t1 == CalculateScaledChances(InitializeDropTables(loot.source), L1)
            IN \A f \in {"uncommon", "rare", "epic", "legendary", "mythic"} :
                  FracLeq(t1.pr[f], t1.den, loot.table.pr[f], loot.table.den)

\* C33: the equipment recompute run by equip_item and unequip_item dispatches
\* only effects whose type is in the whitelist: an equipped item's other
\* effects (heal, for one) change no field of the player: hp and max_hp stay,
\* and so does every stat when the slot that was filled or kept holds an
\* item with no whitelisted effect and the other slots are as they were.
C33_OnlyWhitelistedEffectsOfEquipment ==
    [][ fx'.call \in {"equip_item", "unequip_item",
                      "_recompute_equipment_effects"}
        => /\ fx'.pl.hp = fx.pl.hp
           /\ fx'.pl.max_hp = fx.pl.max_hp
           /\ \A s \in DOMAIN fx'.pl.equipped :
                 ( /\ fx'.pl.equipped[s] # NoItem
                   /\ fx.pl.equipped[s] \in {NoItem, fx'.pl.equipped[s]}
                   /\ \A k \in DOMAIN ITEMS[fx'.pl.equipped[s]].effects :
                         ITEMS[fx'.pl.equipped[s]].effects[k].type
                           \notin EQUIP_EFFECT_WHITELIST
                   /\ \A o \in DOMAIN fx'.pl.equipped \ {s} :
                         fx'.pl.equipped[o] = fx.pl.equipped[o] )
                 => fx'.pl.stats = fx.pl.stats ]_vars

\* an item whose only effect is a heal has been equipped by a player who is
\* not at full health
C33_Witness ==
    /\ fx.call = "equip_item"
    /\ fx.ok
    /\ fx.arg = "Angel's Embrace"
    /\ fx.pl.equipped["armor"] = "Angel's Embrace"
    /\ fx.pl.hp < fx.pl.max_hp

\* how many of item i the player holds, in the inventory and in the slots
Held(pl, i) ==
    pl.inventory[i] + Cardinality({s \in DOMAIN pl.equipped : pl.equipped[s] = i})

\* C39: equip_item and unequip_item conserve the player's items: after any
\* sequence of them, successful or refused, the inventory and the equipped
\* slots together hold what they held before, and a refused call changes
\* neither the inventory nor a slot.
C39_EquipAndUnequipConserveItems ==
    [][ fx'.call \in {"equip_item", "unequip_item"}
        => /\ \A i \in DOMAIN ITEMS :
                 /\ Held(fx'.pl, i) = Held(fx.pl, i)
                 /\ Held(fx'.pl, i) = Held(Hero, i)
                 /\ fx'.pl.inventory[i] >= 0
           /\ \A s \in DOMAIN fx'.pl.equipped :
                 fx'.pl.equipped[s] \in DOMAIN ITEMS \cup {NoItem}
           /\ ~fx'.ok => /\ fx'.pl.inventory = fx.pl.inventory
                         /\ fx'.pl.equipped = fx.pl.equipped ]_vars

\* an item was swapped out of its slot by another, and a refused call
\* followed
C39_Witness ==
    /\ fx.call = "equip_item"
    /\ ~fx.ok
    /\ fx.arg = "Sword of Truth"
    /\ fx.pl.equipped["main_hand"] = "Sword of Truth"
    /\ fx.pl.inventory["Stick"] = 2
    /\ fx.n = 3

\* the value use_skill sets skill_cd to
ClassCooldown(clazz) == IF clazz = "mage" THEN 2 ELSE 3

\* C34: the class skill is never executed while skill_cd > 0: a use sets
\* skill_cd to the class cooldown, every completed round (one the fight goes
\* on after) takes exactly one off it, never below 0, and use_skill runs
\* again in that combat only once it is 0.
C34_SkillWaitsForItsCooldown ==
    [][ (present /\ present' /\ ~failed')
        => /\ p'.skill_cd >= 0
           /\ last' = "skill"
              => /\ p.skill_cd = 0
                 /\ p'.skill_cd \in {ClassCooldown(p.clazz),
                                     ClassCooldown(p.clazz) - 1}
                 /\ (p'.combat /\ e'.oid = e.oid)
                    => p'.skill_cd = ClassCooldown(p.clazz) - 1
           /\ last' \in {"fight", "run"}
              => /\ p'.skill_cd \in {p.skill_cd, Max(0, p.skill_cd - 1)}
                 /\ (p'.combat /\ e'.oid = e.oid)
                    => p'.skill_cd = Max(0, p.skill_cd - 1)
           /\ (last' \in {"heal", "class"} /\ p.combat)
              => p'.skill_cd = p.skill_cd ]_vars

\* a power strike has hit, its round and one round of fight have been
\* played, and the cooldown of 3 stands at 1
C34_Witness ==
    /\ present /\ ~failed
    /\ last = "fight"
    /\ p.clazz = "warrior"
    /\ p.combat
    /\ p.skill_cd = 1
    /\ e.hp = e.max_hp - 5
    /\ p.hp = p.max_hp - 6

\* C35: a boss uses its special every 3 rounds: of the enemy turns in which
\* the boss gets to act, boss_special fires on every third (special_cd goes
\* 1, 2, then the special fires and special_cd is 0 again) and on no other:
\* without it the boss's armor and hp do not rise and the player loses no
\* more than the hit.
C35_BossSpecialEveryThirdTurn ==
    [][ ( /\ gh'.turns = gh.turns + 1
          /\ e.type = "boss"
          /\ gh'.dealtE < e.hp
          /\ ~failed' )
        => LET hit == (IF e'.enraged THEN (e.atk * 3) \div 2 ELSE e.atk) + 2
           IN /\ e.special_cd \in 0..2
              /\ IF e.special_cd = 2
                 THEN /\ e'.special_cd = 0
                      /\ \/ e'.armor = e.armor + 1
                         \/ gh'.dealtP >= Min(p.hp, hit + e.atk + 2)
                 ELSE /\ e'.special_cd = e.special_cd + 1
                      /\ e'.armor = e.armor
                      /\ e'.hp = e.hp - gh'.dealtE
                      /\ gh'.dealtP <= hit ]_vars

\* a boss has acted in three turns, and the third has brought its special
C35_Witness ==
    /\ gh.turns = 3
    /\ last = "enemy_turn" /\ ~failed
    /\ e.type = "boss"
    /\ e.special_cd = 0
    /\ e.armor = 1
    /\ p.hp = 0

\* C37: a player never has two unresolved Encounters: no sequence of
\* explore, hunt and choose has start_mob_combat or start_boss_combat make
\* a new Encounter for a player whose Encounter is still unresolved.
C37_AtMostOneUnresolvedEncounter ==
    Cardinality({i \in 1..Len(encs) : ~encs[i].resolved}) <= 1

====
